---- MODULE Spec2Model ----
(***************************************************************************)
(* Model of the document ingestion pipeline of odoo-expert:                *)
(*   src/src/processing/document_processor.py  (DocumentProcessor)         *)
(* The insert-only pipeline (process_directory / process_file /            *)
(* process_chunk) with its progress checkpoint, and the update pipeline    *)
(* (process_file_with_update / process_chunk_with_update).                 *)
(*   src/document_processor.py  (process_markdown_directory)               *)
(* The log-and-continue pipeline: process_markdown_file gathers the        *)
(* process_chunk tasks of a file, then its insert_chunk tasks.             *)
(***************************************************************************)
EXTENDS Integers, Sequences, FiniteSets, TLC

\* ---------------------------------------------------------------- bounds
MaxChunks == 2      \* a markdown file chunks into 0..MaxChunks passages
MaxRuns == 2        \* number of pipeline runs started in one behaviour
MaxFaults == 2      \* failures injected into process_markdown_directory (unreadable
                    \* file, failed request, failed insert), over all its runs

\* ------------------------------------------------------ program constants
max_retries == 3
retry_delay == 1
settle_delay == 1

\* ------------------------------------------------------------- versions
\* A version string "<major>.<minor>" is the record of its two numbers.
VStr(maj, min) == [major |-> maj, minor |-> min]

version_dirs == << VStr(16, 0), VStr(17, 0), VStr(18, 0) >>

\* int(float(version_str) * 10), for a one-digit minor
VersionInt(vs) == vs.major * 10 + vs.minor

\* the version string, had the integer been formatted without the division
FormatVersion_Undivided(v) == [major |-> v, minor |-> 0]

\* f"{version/10:.1f}"
FormatVersion(v) == [major |-> v \div 10, minor |-> v % 10]

\* ------------------------------------------------ the directory on disk
\* <base>/versions/<vstr>/content/<dir>/<name>.md ; the directory is not
\* changed by the pipeline.  versions/17.0 does not exist.
MdFile(vs, d, n) == [vstr |-> vs, dir |-> d, name |-> n]

F1 == MdFile(VStr(16, 0), "a", "index")
F2 == MdFile(VStr(16, 0), "b", "index")
F3 == MdFile(VStr(18, 0), "a", "setup")

AllFiles == {F1, F2, F3}

\* version_path.exists()
VersionExists(vs) == \E f \in AllFiles : f.vstr = vs

\* list(version_path.rglob("*.md"))
MarkdownFiles(vs) ==
    IF vs = VStr(16, 0) THEN << F1, F2 >>
    ELSE IF vs = VStr(18, 0) THEN << F3 >>
    ELSE << >>

\* Path(file_path).name
FileName(f) == f.name

\* the order in which process_directory walks the files: version directory
\* by version directory, each in the order of rglob
Walk ==
    MarkdownFiles(version_dirs[1]) \o MarkdownFiles(version_dirs[2])
        \o MarkdownFiles(version_dirs[3])

\* a path is the sequence of its segments; a version directory is the
\* segment of its version string
Seg(s) == [seg |-> s]

\* the base directories the pipeline is run on: "docs", and "." (whose
\* paths str(Path(".") / "versions" / ...) start with "versions/")
BaseDirs == { << Seg("docs") >>, << >> }

\* file_str = str(file_path) of a file found under
\* Path(base_directory) / "versions" / version_str
FilePath(base, f) ==
    base \o << Seg("versions"), f.vstr, Seg("content"), Seg(f.dir), Seg(f.name) >>

\* \d+\.\d+
IsVersionSeg(x) == DOMAIN x = {"major", "minor"}

\* convert_path_to_url does not raise ValueError:
\* re.search(r'/versions/(\d+\.\d+)/', file_path) and
\* re.search(r'/versions/\d+\.\d+/(.+?)\.md$', file_path) both match
LocatorResolves(path) ==
    \E k \in 2..(Len(path) - 2) :
        path[k] = Seg("versions") /\ IsVersionSeg(path[k + 1])

\* header_path of chunk i of a file: the first chunk of a file precedes the
\* first heading, the later ones sit under a heading.
HeaderPath(f, i) == IF i = 0 THEN "" ELSE "install"

\* convert_path_to_url(file_path, header_path)[0]
ConvertPathToUrl(f, hp) == [base |-> f.vstr, content_path |-> << f.dir, f.name >>, anchor |-> hp]

Range(q) == {q[k] : k \in 1..Len(q)}

\* the lists list(v) can produce from the set v
ListsOf(S) == {q \in [1..Cardinality(S) -> S] : Range(q) = S}

EmptyMap == [k \in {} |-> {}]

NoFile == [vstr |-> VStr(0, 0), dir |-> "", name |-> ""]

NoSnap == [valid |-> FALSE, sig |-> {}]

NoFail == [file |-> NoFile, index |-> 0, stage |-> "none", attempt |-> 0]

NoTasks == [i \in {} |-> 0]

NoCall == [fn |-> "none"]
NoRet == [done |-> FALSE]

\* ---------------------------------------------------------------- state
VARIABLES
    nchunks,    \* len(chunk_markdown(f)) of every file of the directory
    disk,       \* processing_progress.json
    store,      \* the rows of the table
    nextId,     \* the id the table gives to the next row
    runs,       \* pipeline runs started so far
    mode,       \* the pipeline that is running: "none", "insert", "update"
    pc,         \* position of the running pipeline
    progress,   \* process_directory: the local variable progress
    vi,         \* process_directory: index into version_dirs
    fi,         \* index into markdown_files / the worklist
    ci,         \* process_file: chunk index i
    attempt,    \* process_file: attempt
    exc,        \* an exception is propagating out of process_directory
    saveRet,    \* where _save_progress was called from: "file", "finally"
    result,     \* how the last run ended
    slept,      \* the asyncio.sleep delays while retrying the current chunk
    doneChunks, \* chunk indices whose process_chunk returned in this process_file
    committed,  \* files added to progress by the current run
    loaded,     \* the files in the progress loaded by the current run
    touched,    \* files a chunk of which was attempted in the current run
    pending,    \* the file whose processing was cut short and not begun since
    partial,    \* per file, passages inserted by processings that were cut short
    records_to_delete,  \* process_chunk_with_update: the ids found by the lookup
    snap,       \* the store contents the previous run left, when it was a
                \* complete update run
    cut,        \* how the processing of pending was cut short: "raised", "killed"
    owed,       \* pending and cut as they were when the current run started
    firstBegun, \* the first file the current run called process_file on
    runFirstId, \* nextId when the current run started
    base_directory, \* the base directory the pipeline is run on, as path segments
    lastFail,   \* the last failed attempt on a passage: file, index, stage, attempt
    legTasks,   \* process_markdown_file: the process_chunk tasks that have finished
    legInserted,\* process_markdown_file: the insert_chunk tasks that have finished
    legErrors,  \* process_markdown_directory: files whose process_markdown_file raised
    legOk,      \* process_markdown_directory: files reported as successfully processed
    faults,     \* the failures injected into process_markdown_directory so far
    call,       \* a call of one of the pure functions: its name and arguments
    ret         \* what that call returned or raised

vars == << nchunks, disk, store, nextId, runs, mode, pc, progress, vi, fi, ci,
           attempt, exc, saveRet, result, slept, doneChunks, committed, loaded,
           touched, pending, partial, records_to_delete, snap, cut, owed,
           firstBegun, runFirstId, base_directory, lastFail, legTasks,
           legInserted, legErrors, legOk, faults, call, ret >>

\* the state of process_markdown_directory, the base directory, and the
\* call of a pure function
otherVars == << base_directory, legTasks, legInserted, legErrors, legOk, faults,
               call, ret >>

procVars == << vi, fi, ci, attempt, exc, saveRet, records_to_delete >>
ghostVars == << slept, doneChunks, committed, loaded, touched, pending, partial,
               snap, cut, owed, firstBegun, runFirstId >>

\* ------------------------------------------------------------ checkpoint
AbsentFile == [exists |-> FALSE, valid |-> TRUE, data |-> EmptyMap]
TruncatedFile == [exists |-> TRUE, valid |-> FALSE, data |-> EmptyMap]

\* _load_progress: {k: set(v) for k, v in progress.items()}, {} when absent
LoadProgress(d) ==
    IF d.exists THEN [k \in DOMAIN d.data |-> Range(d.data[k])] ELSE EmptyMap

\* a save that writes the entry of one version only
DumpsOf_OneVersion(p) ==
    {d \in UNION {[K -> UNION {ListsOf(p[k]) : k \in DOMAIN p}] : K \in SUBSET DOMAIN p} :
        /\ Cardinality(DOMAIN d) <= 1
        /\ \A k \in DOMAIN d : d[k] \in ListsOf(p[k])}

\* progress_json = {k: list(v) for k, v in progress.items()}
DumpsOf(p) ==
    {d \in [DOMAIN p -> UNION {ListsOf(p[k]) : k \in DOMAIN p}] :
        \A k \in DOMAIN p : d[k] \in ListsOf(p[k])}

FilesOf(p) == UNION {p[k] : k \in DOMAIN p}

DiskFiles == IF disk.exists /\ disk.valid THEN FilesOf(LoadProgress(disk)) ELSE {}

\* ----------------------------------------------------------------- store
\* the row process_chunk assembles for chunk i of file f
Record(f, i, version) ==
    [url |-> ConvertPathToUrl(f, HeaderPath(f, i)),
     chunk_number |-> i,
     version |-> version,
     filename |-> FileName(f),
     version_str |-> FormatVersion(version)]

WithId(rec, id) ==
    [id |-> id, url |-> rec.url, chunk_number |-> rec.chunk_number,
     version |-> rec.version, filename |-> rec.filename,
     version_str |-> rec.version_str]

\* InsertRow, had a failed insert been swallowed instead of raised
InsertRow_Swallowed(rows, rec, id) == rows

\* InsertRow, had the table replaced a row of the same url, chunk_number
\* and version
InsertRow_Upsert(rows, rec, id) ==
    {r \in rows : << r.url, r.chunk_number, r.version >> #
                  << rec.url, rec.chunk_number, rec.version >>}
        \cup {WithId(rec, id)}

\* table(TABLE_NAME).insert(chunk_data).execute()
InsertRow(rows, rec, id) == rows \cup {WithId(rec, id)}

Triple(r) == << r.url, r.chunk_number, r.version >>

RowsOf(f, i) ==
    {r \in store : Triple(r) = Triple(Record(f, i, VersionInt(f.vstr)))}

CurVersionStr == version_dirs[vi]
CurFile == MarkdownFiles(CurVersionStr)[fi]

\* ------------------------------------------------------------------ Init
\* no pipeline has run yet
PipelineStart ==
    /\ disk = AbsentFile
    /\ store = {}
    /\ nextId = 1
    /\ runs = 0
    /\ mode = "none"
    /\ pc = "idle"
    /\ progress = EmptyMap
    /\ vi = 1
    /\ fi = 1
    /\ ci = 0
    /\ attempt = 0
    /\ exc = FALSE
    /\ saveRet = "none"
    /\ result = "none"
    /\ slept = << >>
    /\ doneChunks = {}
    /\ committed = {}
    /\ loaded = {}
    /\ touched = {}
    /\ pending = NoFile
    /\ partial = [f \in AllFiles |-> 0]
    /\ records_to_delete = {}
    /\ snap = NoSnap
    /\ cut = "none"
    /\ owed = [file |-> NoFile, why |-> "none"]
    /\ firstBegun = NoFile
    /\ runFirstId = 1
    /\ lastFail = NoFail
    /\ legTasks = NoTasks
    /\ legInserted = << >>
    /\ legErrors = {}
    /\ legOk = {}
    /\ faults = 0

Init ==
    /\ nchunks \in [AllFiles -> 0..MaxChunks]
    /\ base_directory \in BaseDirs
    /\ PipelineStart
    /\ call = NoCall
    /\ ret = NoRet

\* ------------------------------------------ process_directory (insert-only)
\* progress = self._load_progress(), a progress file that json.load rejects
\* makes process_directory raise before its try block
StartDirectory ==
    /\ pc = "idle"
    /\ runs < MaxRuns
    /\ runs' = runs + 1
    /\ committed' = {}
    /\ touched' = {}
    /\ slept' = << >>
    /\ doneChunks' = {}
    /\ vi' = 1 /\ fi' = 1 /\ ci' = 0 /\ attempt' = 0 /\ exc' = FALSE
    /\ saveRet' = "none"
    /\ IF disk.exists /\ ~disk.valid
         THEN /\ mode' = "none"
              /\ pc' = "idle"
              /\ result' = "load_error"
              /\ progress' = EmptyMap
              /\ loaded' = {}
         ELSE /\ mode' = "insert"
              /\ pc' = "version"
              /\ result' = "running"
              /\ progress' = LoadProgress(disk)
              /\ loaded' = FilesOf(LoadProgress(disk))
    /\ UNCHANGED << nchunks, disk, store, nextId, pending, partial >>
    /\ records_to_delete' = {}
    /\ snap' = NoSnap
    /\ owed' = [file |-> pending, why |-> cut]
    /\ firstBegun' = NoFile
    /\ runFirstId' = nextId
    /\ UNCHANGED cut
    /\ UNCHANGED otherVars
    /\ lastFail' = NoFail

\* for version_str in version_dirs: ... markdown_files = list(rglob)
ScanVersion ==
    /\ mode = "insert" /\ pc = "version"
    /\ IF vi > Len(version_dirs)
         THEN /\ pc' = "finally"
              /\ UNCHANGED << progress, vi, fi >>
         ELSE IF ~VersionExists(CurVersionStr)
         THEN /\ vi' = vi + 1
              /\ UNCHANGED << progress, pc, fi >>
         ELSE /\ progress' =
                   IF CurVersionStr \in DOMAIN progress THEN progress
                   ELSE [k \in DOMAIN progress \cup {CurVersionStr} |->
                            IF k \in DOMAIN progress THEN progress[k] ELSE {}]
              /\ fi' = 1
              /\ pc' = "files"
              /\ UNCHANGED vi
    /\ UNCHANGED << nchunks, disk, store, nextId, runs, mode, ci, attempt, exc,
                    saveRet, result >>
    /\ UNCHANGED ghostVars
    /\ UNCHANGED records_to_delete
    /\ UNCHANGED otherVars
    /\ UNCHANGED lastFail

\* the for loop over markdown_files is exhausted
EndVersion ==
    /\ mode = "insert" /\ pc = "files"
    /\ fi > Len(MarkdownFiles(CurVersionStr))
    /\ vi' = vi + 1
    /\ pc' = "version"
    /\ UNCHANGED << nchunks, disk, store, nextId, runs, mode, progress, fi, ci,
                    attempt, exc, saveRet, result >>
    /\ UNCHANGED ghostVars
    /\ UNCHANGED records_to_delete
    /\ UNCHANGED otherVars
    /\ UNCHANGED lastFail

\* AlreadyProcessed, had the check of the checkpoint been left out
AlreadyProcessed_Never(f, vs, p) == FALSE

\* file_str in progress[version_str]
AlreadyProcessed(f, vs, p) == f \in p[vs]

\* if file_str in progress[version_str]: continue
SkipFile ==
    /\ mode = "insert" /\ pc = "files"
    /\ fi <= Len(MarkdownFiles(CurVersionStr))
    /\ AlreadyProcessed(CurFile, CurVersionStr, progress)
    /\ fi' = fi + 1
    /\ UNCHANGED << nchunks, disk, store, nextId, runs, mode, pc, progress, vi,
                    ci, attempt, exc, saveRet, result, records_to_delete >>
    /\ UNCHANGED ghostVars
    /\ UNCHANGED otherVars
    /\ UNCHANGED lastFail

\* MarkDone, had the set of the version been replaced by the one file
MarkDone_Replace(p, vs, f) == [p EXCEPT ![vs] = {f}]

\* progress[version_str].add(file_str)
MarkDone(p, vs, f) == [p EXCEPT ![vs] = @ \cup {f}]

\* BeginFile, had the file been added to progress before process_file is
\* awaited instead of after
BeginFile_MarkFirst ==
    /\ mode = "insert" /\ pc = "files"
    /\ fi <= Len(MarkdownFiles(CurVersionStr))
    /\ ~AlreadyProcessed(CurFile, CurVersionStr, progress)
    /\ progress' = MarkDone(progress, CurVersionStr, CurFile)
    /\ pc' = "chunk"
    /\ ci' = 0
    /\ attempt' = 0
    /\ slept' = << >>
    /\ doneChunks' = {}
    /\ touched' = touched \cup {CurFile}
    /\ firstBegun' = IF firstBegun = NoFile THEN CurFile ELSE firstBegun
    /\ UNCHANGED << nchunks, disk, store, nextId, runs, mode, vi, fi,
                    exc, saveRet, result, committed, loaded,
                    partial, pending, cut, owed, runFirstId,
                    records_to_delete, snap >>
    /\ UNCHANGED otherVars
    /\ lastFail' = NoFail

\* BeginFile, had the file been added to progress and progress been saved
\* before process_file is awaited instead of after
BeginFile_SaveFirst ==
    /\ mode = "insert" /\ pc = "files"
    /\ fi <= Len(MarkdownFiles(CurVersionStr))
    /\ ~AlreadyProcessed(CurFile, CurVersionStr, progress)
    /\ progress' = MarkDone(progress, CurVersionStr, CurFile)
    /\ \E d \in DumpsOf(MarkDone(progress, CurVersionStr, CurFile)) :
          disk' = [exists |-> TRUE, valid |-> TRUE, data |-> d]
    /\ pc' = "chunk"
    /\ ci' = 0
    /\ attempt' = 0
    /\ slept' = << >>
    /\ doneChunks' = {}
    /\ touched' = touched \cup {CurFile}
    /\ firstBegun' = IF firstBegun = NoFile THEN CurFile ELSE firstBegun
    /\ UNCHANGED << nchunks, store, nextId, runs, mode, vi, fi,
                    exc, saveRet, result, committed, loaded,
                    partial, pending, cut, owed, runFirstId,
                    records_to_delete, snap >>
    /\ UNCHANGED otherVars
    /\ lastFail' = NoFail

\* await self.process_file(file_str, version): chunks = chunk_markdown(...)
BeginFile ==
    /\ mode = "insert" /\ pc = "files"
    /\ fi <= Len(MarkdownFiles(CurVersionStr))
    /\ ~AlreadyProcessed(CurFile, CurVersionStr, progress)
    /\ pc' = "chunk"
    /\ ci' = 0
    /\ attempt' = 0
    /\ slept' = << >>
    /\ doneChunks' = {}
    /\ touched' = touched \cup {CurFile}
    /\ firstBegun' = IF firstBegun = NoFile THEN CurFile ELSE firstBegun
    /\ UNCHANGED << nchunks, disk, store, nextId, runs, mode, progress, vi, fi,
                    exc, saveRet, result, committed, loaded, partial, pending, cut, owed, runFirstId,
                    records_to_delete, snap >>
    /\ UNCHANGED otherVars
    /\ lastFail' = NoFail

\* ChunkPrepare, had process_chunk inserted the row before the embedding
\* is generated
ChunkPrepare_WriteFirst ==
    /\ mode = "insert" /\ pc = "chunk"
    /\ ci < nchunks[CurFile]
    /\ LocatorResolves(FilePath(base_directory, CurFile))
    /\ store' = InsertRow(store, Record(CurFile, ci, VersionInt(CurVersionStr)), nextId)
    /\ nextId' = nextId + 1
    /\ pc' = "insert"
    /\ UNCHANGED << nchunks, disk, runs, mode, progress, result, lastFail >>
    /\ UNCHANGED procVars
    /\ UNCHANGED ghostVars
    /\ UNCHANGED otherVars

\* process_chunk, up to the insert: the url, the title, the embedding and
\* the metadata of chunk ci are computed
ChunkPrepare ==
    /\ mode = "insert" /\ pc = "chunk"
    /\ ci < nchunks[CurFile]
    /\ LocatorResolves(FilePath(base_directory, CurFile))
    /\ pc' = "insert"
    /\ UNCHANGED << nchunks, disk, store, nextId, runs, mode, progress, result,
                    lastFail >>
    /\ UNCHANGED procVars
    /\ UNCHANGED ghostVars
    /\ UNCHANGED otherVars

\* ChunkOk, had process_file added the file to the progress itself once its
\* last chunk is inserted
ChunkOk_Checkpoint ==
    /\ mode = "insert" /\ pc = "insert"
    /\ store' = InsertRow(store, Record(CurFile, ci, VersionInt(CurVersionStr)), nextId)
    /\ nextId' = nextId + 1
    /\ doneChunks' = doneChunks \cup {ci}
    /\ ci' = ci + 1
    /\ attempt' = 0
    /\ slept' = << >>
    /\ progress' = IF ci + 1 = nchunks[CurFile]
                     THEN MarkDone(progress, CurVersionStr, CurFile)
                     ELSE progress
    /\ UNCHANGED << nchunks, disk, runs, mode, vi, fi, exc,
                    saveRet, result, committed, loaded, touched, pending,
                    partial, records_to_delete, snap >>
    /\ UNCHANGED << cut, owed, firstBegun, runFirstId >>
    /\ UNCHANGED otherVars
    /\ lastFail' = NoFail
    /\ pc' = "chunk"

\* process_chunk: self._insert_chunk(...) returns: the row is inserted, break
ChunkOk ==
    /\ mode = "insert" /\ pc = "insert"
    /\ store' = InsertRow(store, Record(CurFile, ci, VersionInt(CurVersionStr)), nextId)
    /\ nextId' = nextId + 1
    /\ doneChunks' = doneChunks \cup {ci}
    /\ ci' = ci + 1
    /\ attempt' = 0
    /\ slept' = << >>
    /\ UNCHANGED << nchunks, disk, runs, mode, progress, vi, fi, exc,
                    saveRet, result, committed, loaded, touched, pending,
                    partial, records_to_delete, snap >>
    /\ UNCHANGED << cut, owed, firstBegun, runFirstId >>
    /\ UNCHANGED otherVars
    /\ lastFail' = NoFail
    /\ pc' = "chunk"

\* if attempt == max_retries - 1: raise
LastAttempt(a) == a = max_retries - 1

\* the call of process_chunk that fails: convert_path_to_url when the path
\* does not resolve, else the embedding request, else the insert
FailStage(position, path) ==
    IF position = "insert" THEN "insert"
    ELSE IF ~LocatorResolves(path) THEN "locator"
    ELSE "embedding"

\* ChunkFail, had process_directory logged the error of the last attempt and
\* gone on with the next file
ChunkFail_Continue ==
    /\ mode = "insert"
    /\ \/ pc = "chunk" /\ ci < nchunks[CurFile]
       \/ pc = "insert"
    /\ lastFail' = [file |-> CurFile, index |-> ci,
                    stage |-> FailStage(pc, FilePath(base_directory, CurFile)),
                    attempt |-> attempt]
    /\ IF LastAttempt(attempt)
         THEN /\ pc' = "files"
              /\ fi' = fi + 1
              /\ pending' = CurFile
              /\ cut' = "raised"
              /\ partial' = [partial EXCEPT ![CurFile] = IF ci > @ THEN ci ELSE @]
         ELSE /\ pc' = "sleep"
              /\ UNCHANGED << fi, pending, partial, cut >>
    /\ UNCHANGED << nchunks, disk, store, nextId, runs, mode, progress, vi, exc,
                    ci, attempt, saveRet, result, slept, doneChunks, committed,
                    loaded, touched, records_to_delete, snap >>
    /\ UNCHANGED << owed, firstBegun, runFirstId >>
    /\ UNCHANGED otherVars

\* ChunkFail, had the request that failed written its row all the same
ChunkFail_AfterInsert ==
    /\ mode = "insert"
    /\ \/ pc = "chunk" /\ ci < nchunks[CurFile]
       \/ pc = "insert"
    /\ lastFail' = [file |-> CurFile, index |-> ci,
                    stage |-> FailStage(pc, FilePath(base_directory, CurFile)),
                    attempt |-> attempt]
    /\ IF LastAttempt(attempt)
         THEN /\ exc' = TRUE
              /\ pc' = "finally"
              /\ pending' = CurFile
              /\ cut' = "raised"
              /\ partial' = [partial EXCEPT ![CurFile] = IF ci > @ THEN ci ELSE @]
         ELSE /\ pc' = "sleep"
              /\ UNCHANGED << exc, pending, partial, cut >>
    /\ IF pc = "insert"
         THEN /\ store' = InsertRow(store, Record(CurFile, ci, VersionInt(CurVersionStr)),
                                    nextId)
              /\ nextId' = nextId + 1
         ELSE UNCHANGED << store, nextId >>
    /\ UNCHANGED << nchunks, disk, runs, mode, progress, vi, fi,
                    ci, attempt, saveRet, result, slept, doneChunks, committed,
                    loaded, touched, records_to_delete, snap >>
    /\ UNCHANGED << owed, firstBegun, runFirstId >>
    /\ UNCHANGED otherVars

\* one attempt of process_chunk that raises (convert_path_to_url, the
\* embedding call or the insert failed; nothing was inserted): retry after a
\* sleep, or re-raise through process_file and process_directory
ChunkFail ==
    /\ mode = "insert"
    /\ \/ pc = "chunk" /\ ci < nchunks[CurFile]
       \/ pc = "insert"
    /\ lastFail' = [file |-> CurFile, index |-> ci,
                    stage |-> FailStage(pc, FilePath(base_directory, CurFile)),
                    attempt |-> attempt]
    /\ IF LastAttempt(attempt)
         THEN /\ exc' = TRUE
              /\ pc' = "finally"
              /\ pending' = CurFile
              /\ cut' = "raised"
              /\ partial' = [partial EXCEPT ![CurFile] = IF ci > @ THEN ci ELSE @]
         ELSE /\ pc' = "sleep"
              /\ UNCHANGED << exc, pending, partial, cut >>
    /\ UNCHANGED << nchunks, disk, store, nextId, runs, mode, progress, vi, fi,
                    ci, attempt, saveRet, result, slept, doneChunks, committed,
                    loaded, touched, records_to_delete, snap >>
    /\ UNCHANGED << owed, firstBegun, runFirstId >>
    /\ UNCHANGED otherVars

\* RetryDelay, had the delay not grown with the attempt
RetryDelay_Constant(a) == retry_delay

\* retry_delay * (attempt + 1)
RetryDelay(a) == retry_delay * (a + 1)

\* await asyncio.sleep(retry_delay * (attempt + 1)), then the next attempt
RetrySleep ==
    /\ mode = "insert" /\ pc = "sleep"
    /\ slept' = Append(slept, RetryDelay(attempt))
    /\ attempt' = attempt + 1
    /\ pc' = "chunk"
    /\ UNCHANGED << nchunks, disk, store, nextId, runs, mode, progress, vi, fi,
                    ci, exc, saveRet, result, doneChunks, committed, loaded,
                    touched, pending, partial, records_to_delete, snap, cut, owed,
           firstBegun, runFirstId >>
    /\ UNCHANGED << cut, owed, firstBegun, runFirstId >>
    /\ UNCHANGED otherVars
    /\ UNCHANGED lastFail

\* FileDone, had progress been saved only by the finally block
FileDone_NoSave ==
    /\ mode = "insert" /\ pc = "chunk"
    /\ ci = nchunks[CurFile]
    /\ progress' = MarkDone(progress, CurVersionStr, CurFile)
    /\ committed' = committed \cup {CurFile}
    /\ fi' = fi + 1
    /\ pc' = "files"
    /\ UNCHANGED << nchunks, disk, store, nextId, runs, mode, vi, ci, saveRet,
                    attempt, exc, result, slept, doneChunks, loaded, touched,
                    partial, records_to_delete, snap, owed, firstBegun,
                    runFirstId >>
    /\ pending' = IF pending = CurFile THEN NoFile ELSE pending
    /\ cut' = IF pending = CurFile THEN "none" ELSE cut
    /\ UNCHANGED otherVars
    /\ UNCHANGED lastFail

\* process_file returned: progress[version_str].add(file_str), then
\* _save_progress(progress) is entered
FileDone ==
    /\ mode = "insert" /\ pc = "chunk"
    /\ ci = nchunks[CurFile]
    /\ progress' = MarkDone(progress, CurVersionStr, CurFile)
    /\ committed' = committed \cup {CurFile}
    /\ saveRet' = "file"
    /\ pc' = "save_open"
    /\ UNCHANGED << nchunks, disk, store, nextId, runs, mode, vi, fi, ci,
                    attempt, exc, result, slept, doneChunks, loaded, touched,
                    partial, records_to_delete, snap, owed, firstBegun,
                    runFirstId >>
    /\ pending' = IF pending = CurFile THEN NoFile ELSE pending
    /\ cut' = IF pending = CurFile THEN "none" ELSE cut
    /\ UNCHANGED otherVars
    /\ UNCHANGED lastFail

\* finally: self._save_progress(progress) is entered
Finally ==
    /\ mode = "insert" /\ pc = "finally"
    /\ saveRet' = "finally"
    /\ pc' = "save_open"
    /\ UNCHANGED << nchunks, disk, store, nextId, runs, mode, progress, vi, fi,
                    ci, attempt, exc, result, records_to_delete >>
    /\ UNCHANGED ghostVars
    /\ UNCHANGED otherVars
    /\ UNCHANGED lastFail

\* _save_progress: open(self.progress_file, 'w') truncates the file
SaveOpen ==
    /\ mode = "insert" /\ pc = "save_open"
    /\ disk' = TruncatedFile
    /\ pc' = "save_dump"
    /\ UNCHANGED << nchunks, store, nextId, runs, mode, progress, result >>
    /\ UNCHANGED procVars
    /\ UNCHANGED ghostVars
    /\ UNCHANGED otherVars
    /\ UNCHANGED lastFail

\* _save_progress: json.dump(progress_json, f); then back in the caller
SaveDump ==
    /\ mode = "insert" /\ pc = "save_dump"
    /\ \E d \in DumpsOf(progress) :
          disk' = [exists |-> TRUE, valid |-> TRUE, data |-> d]
    /\ IF saveRet = "file"
         THEN /\ fi' = fi + 1
              /\ pc' = "files"
              /\ UNCHANGED << mode, result >>
         ELSE /\ pc' = "idle"
              /\ mode' = "none"
              /\ result' = IF exc THEN "raised" ELSE "ok"
              /\ UNCHANGED fi
    /\ UNCHANGED << nchunks, store, nextId, runs, progress, vi, ci, attempt,
                    exc, saveRet, records_to_delete >>
    /\ UNCHANGED ghostVars
    /\ UNCHANGED otherVars
    /\ UNCHANGED lastFail

\* a file is being processed by process_file
InFile == mode = "insert" /\ pc \in {"chunk", "insert", "sleep"}

\* the process is killed: everything in memory is lost, the progress file
\* and the table stay as they are
Kill ==
    /\ mode # "none"
    /\ pc' = "idle"
    /\ mode' = "none"
    /\ result' = IF InFile THEN "killed_in_file" ELSE "killed"
    /\ progress' = EmptyMap
    /\ vi' = 1 /\ fi' = 1 /\ ci' = 0 /\ attempt' = 0 /\ exc' = FALSE
    /\ saveRet' = "none"
    /\ records_to_delete' = {}
    /\ slept' = << >>
    /\ doneChunks' = {}
    /\ snap' = NoSnap
    /\ IF InFile
         THEN /\ pending' = CurFile
              /\ cut' = "killed"
              /\ partial' = [partial EXCEPT ![CurFile] = IF ci > @ THEN ci ELSE @]
         ELSE UNCHANGED << pending, partial, cut >>
    /\ UNCHANGED << nchunks, disk, store, nextId, runs, committed, loaded, touched >>
    /\ UNCHANGED << owed, firstBegun, runFirstId >>
    /\ legTasks' = NoTasks /\ legInserted' = << >>
    /\ legErrors' = {} /\ legOk' = {}
    /\ UNCHANGED << base_directory, faults, call, ret >>
    /\ lastFail' = NoFail

NextInsert ==
    \/ StartDirectory
    \/ ScanVersion
    \/ EndVersion
    \/ SkipFile
    \/ BeginFile
    \/ ChunkPrepare
    \/ ChunkOk
    \/ ChunkFail
    \/ RetrySleep
    \/ FileDone
    \/ Finally
    \/ SaveOpen
    \/ SaveDump
    \/ Kill

SpecInsert == Init /\ [][NextInsert]_vars

\* ------------------------------------------------------------ update mode
\* the files handed to process_file_with_update, in order, each with the
\* version of its path
Worklist == << F1, F2, F3 >>

UpdFile == Worklist[fi]
UpdVersion == VersionInt(UpdFile.vstr)

\* what the table holds, row ids aside: every (url, chunk_number, version)
\* with its filename and the number of rows that carry it
Sig(rows) ==
    {<< Triple(r), r.filename, Cardinality({q \in rows : Triple(q) = Triple(r)}) >> :
        r \in rows}

\* a run of update mode over the worklist starts
StartUpdate ==
    /\ pc = "idle"
    /\ runs < MaxRuns
    /\ runs' = runs + 1
    /\ mode' = "update"
    /\ pc' = "ufiles"
    /\ result' = "running"
    /\ progress' = EmptyMap
    /\ vi' = 1 /\ fi' = 1 /\ ci' = 0 /\ attempt' = 0 /\ exc' = FALSE
    /\ saveRet' = "none"
    /\ records_to_delete' = {}
    /\ slept' = << >>
    /\ doneChunks' = {}
    /\ committed' = {}
    /\ loaded' = {}
    /\ touched' = {}
    /\ UNCHANGED << nchunks, disk, store, nextId, pending, partial, snap >>
    /\ owed' = [file |-> pending, why |-> cut]
    /\ firstBegun' = NoFile
    /\ runFirstId' = nextId
    /\ UNCHANGED cut
    /\ UNCHANGED otherVars
    /\ lastFail' = NoFail

\* process_file_with_update(file_path, version): chunks = chunk_markdown(...)
UpdBeginFile ==
    /\ mode = "update" /\ pc = "ufiles"
    /\ fi <= Len(Worklist)
    /\ pc' = "uchunk"
    /\ ci' = 0
    /\ touched' = touched \cup {UpdFile}
    /\ slept' = << >>
    /\ doneChunks' = {}
    /\ UNCHANGED << nchunks, disk, store, nextId, runs, mode, progress, vi, fi,
                    attempt, exc, saveRet, result, records_to_delete, committed,
                    loaded, pending, partial, snap >>
    /\ UNCHANGED << cut, owed, firstBegun, runFirstId >>
    /\ UNCHANGED otherVars
    /\ lastFail' = NoFail

\* process_chunk_with_update: the url, the title, the embedding and the
\* metadata of chunk ci are computed
UpdPrepare ==
    /\ mode = "update" /\ pc = "uchunk"
    /\ ci < nchunks[UpdFile]
    /\ LocatorResolves(FilePath(base_directory, UpdFile))
    /\ pc' = "ulookup"
    /\ UNCHANGED << nchunks, disk, store, nextId, runs, mode, progress, result >>
    /\ UNCHANGED procVars
    /\ UNCHANGED ghostVars
    /\ UNCHANGED otherVars
    /\ UNCHANGED lastFail

\* .filter("metadata->>filename", "eq", filename)
\* .filter("metadata->>version_str", "eq", version_str)
MetadataMatch(rows, filename, version_str) ==
    {r \in rows : r.filename = filename /\ r.version_str = version_str}

\* metadata_result = select ... execute(); records_to_delete.extend(new_ids)
UpdLookup ==
    /\ mode = "update" /\ pc = "ulookup"
    /\ LET ids == {r.id : r \in MetadataMatch(store, FileName(UpdFile),
                                              FormatVersion(UpdVersion))}
       IN /\ records_to_delete' = ids
          /\ pc' = IF ids # {} THEN "udelete" ELSE "uinsert"
    /\ UNCHANGED << nchunks, disk, store, nextId, runs, mode, progress, vi, fi,
                    ci, attempt, exc, saveRet, result >>
    /\ UNCHANGED ghostVars
    /\ UNCHANGED otherVars
    /\ UNCHANGED lastFail

\* DeleteRows, had the delete of the existing rows been left out
DeleteRows_None(rows, ids) == rows

\* .delete().in_("id", records_to_delete).execute()
DeleteRows(rows, ids) == {r \in rows : r.id \notin ids}

\* UpdDelete, had the rows been replaced in one transaction
UpdDelete_Atomic ==
    /\ mode = "update" /\ pc = "udelete"
    /\ store' = InsertRow(DeleteRows(store, records_to_delete),
                          Record(UpdFile, ci, UpdVersion), nextId)
    /\ nextId' = nextId + 1
    /\ doneChunks' = doneChunks \cup {ci}
    /\ ci' = ci + 1
    /\ records_to_delete' = {}
    /\ slept' = << >>
    /\ pc' = "uchunk"
    /\ UNCHANGED << nchunks, disk, runs, mode, progress, vi, fi, attempt, exc,
                    saveRet, result, committed, loaded, touched, pending,
                    partial, snap >>
    /\ UNCHANGED << cut, owed, firstBegun, runFirstId >>
    /\ UNCHANGED otherVars
    /\ lastFail' = NoFail

\* UpdDelete, had the insert followed the delete without the delay
UpdDelete_NoSettle ==
    /\ mode = "update" /\ pc = "udelete"
    /\ store' = DeleteRows(store, records_to_delete)
    /\ pc' = "uinsert"
    /\ UNCHANGED << nchunks, disk, nextId, runs, mode, progress, result >>
    /\ UNCHANGED procVars
    /\ UNCHANGED ghostVars
    /\ UNCHANGED otherVars
    /\ UNCHANGED lastFail

UpdDelete ==
    /\ mode = "update" /\ pc = "udelete"
    /\ store' = DeleteRows(store, records_to_delete)
    /\ pc' = "usettle"
    /\ UNCHANGED << nchunks, disk, nextId, runs, mode, progress, result >>
    /\ UNCHANGED procVars
    /\ UNCHANGED ghostVars
    /\ UNCHANGED otherVars
    /\ UNCHANGED lastFail

\* await asyncio.sleep(1)
UpdSettle ==
    /\ mode = "update" /\ pc = "usettle"
    /\ slept' = Append(slept, settle_delay)
    /\ pc' = "uinsert"
    /\ UNCHANGED << nchunks, disk, store, nextId, runs, mode, progress, result,
                    doneChunks, committed, loaded, touched, pending, partial, snap >>
    /\ UNCHANGED procVars
    /\ UNCHANGED << cut, owed, firstBegun, runFirstId >>
    /\ UNCHANGED otherVars
    /\ UNCHANGED lastFail

\* UpdInsert, had the loop created the task of the next chunk without
\* awaiting the insert of this one
UpdInsert_NoWait ==
    /\ mode = "update" /\ pc = "uinsert"
    /\ ci' = ci + 1
    /\ records_to_delete' = {}
    /\ slept' = << >>
    /\ pc' = "uchunk"
    /\ UNCHANGED << nchunks, disk, store, nextId, runs, mode, progress, vi, fi,
                    attempt, exc, saveRet, result, doneChunks, committed, loaded,
                    touched, pending, partial, snap >>
    /\ UNCHANGED << cut, owed, firstBegun, runFirstId >>
    /\ UNCHANGED otherVars
    /\ lastFail' = NoFail

\* table(TABLE_NAME).insert(record_data).execute(); the next chunk
UpdInsert ==
    /\ mode = "update" /\ pc = "uinsert"
    /\ store' = InsertRow(store, Record(UpdFile, ci, UpdVersion), nextId)
    /\ nextId' = nextId + 1
    /\ doneChunks' = doneChunks \cup {ci}
    /\ ci' = ci + 1
    /\ records_to_delete' = {}
    /\ slept' = << >>
    /\ pc' = "uchunk"
    /\ UNCHANGED << nchunks, disk, runs, mode, progress, vi, fi, attempt, exc,
                    saveRet, result, committed, loaded, touched, pending,
                    partial, snap >>
    /\ UNCHANGED << cut, owed, firstBegun, runFirstId >>
    /\ UNCHANGED otherVars
    /\ lastFail' = NoFail

\* the loop over the chunks is exhausted: process_file_with_update returns
UpdFileDone ==
    /\ mode = "update" /\ pc = "uchunk"
    /\ ci = nchunks[UpdFile]
    /\ pc' = "ufiledone"
    /\ UNCHANGED << nchunks, disk, store, nextId, runs, mode, progress, result >>
    /\ UNCHANGED procVars
    /\ UNCHANGED ghostVars
    /\ UNCHANGED otherVars
    /\ UNCHANGED lastFail

\* the next file of the worklist
UpdNextFile ==
    /\ mode = "update" /\ pc = "ufiledone"
    /\ fi' = fi + 1
    /\ pc' = "ufiles"
    /\ UNCHANGED << nchunks, disk, store, nextId, runs, mode, progress, vi, ci,
                    attempt, exc, saveRet, result, records_to_delete >>
    /\ UNCHANGED ghostVars
    /\ UNCHANGED otherVars
    /\ UNCHANGED lastFail

\* UpdRaise, had the except clause around the lookup and the delete only
\* logged the warning: the insert of the fresh record follows
UpdRaise_Swallow ==
    /\ mode = "update"
    /\ pc \in {"ulookup", "udelete"}
    /\ lastFail' = [file |-> UpdFile, index |-> ci, stage |-> pc, attempt |-> 0]
    /\ pc' = "uinsert"
    /\ UNCHANGED << nchunks, disk, store, nextId, runs, mode, progress, result >>
    /\ UNCHANGED procVars
    /\ UNCHANGED ghostVars
    /\ UNCHANGED otherVars

\* a call of process_chunk_with_update raises (embedding, lookup, delete or
\* insert failed; the failed call changed nothing): the error leaves
\* process_file_with_update; the caller goes on with the next file or stops
UpdRaise ==
    /\ mode = "update"
    /\ \/ pc = "uchunk" /\ ci < nchunks[UpdFile]
       \/ pc \in {"ulookup", "udelete", "uinsert"}
    /\ records_to_delete' = {}
    /\ lastFail' = [file |-> UpdFile, index |-> ci,
                    stage |-> IF pc = "uchunk"
                                THEN FailStage(pc, FilePath(base_directory, UpdFile))
                                ELSE pc,
                    attempt |-> 0]
    /\ slept' = << >>
    /\ \/ /\ exc' = TRUE
          /\ fi' = fi + 1
          /\ pc' = "ufiles"
          /\ UNCHANGED << mode, result, snap >>
       \/ /\ exc' = FALSE
          /\ pc' = "idle"
          /\ mode' = "none"
          /\ result' = "raised"
          /\ snap' = NoSnap
          /\ UNCHANGED fi
    /\ UNCHANGED << nchunks, disk, store, nextId, runs, progress, vi, ci,
                    attempt, saveRet, doneChunks, committed, loaded, touched,
                    pending, partial >>
    /\ UNCHANGED << cut, owed, firstBegun, runFirstId >>
    /\ UNCHANGED otherVars

\* the worklist is exhausted
UpdEndRun ==
    /\ mode = "update" /\ pc = "ufiles"
    /\ fi > Len(Worklist)
    /\ pc' = "idle"
    /\ mode' = "none"
    /\ result' = IF exc THEN "raised" ELSE "ok"
    /\ snap' = IF exc THEN NoSnap ELSE [valid |-> TRUE, sig |-> Sig(store)]
    /\ exc' = FALSE
    /\ UNCHANGED << nchunks, disk, store, nextId, runs, progress, vi, fi, ci,
                    attempt, saveRet, records_to_delete, slept, doneChunks,
                    committed, loaded, touched, pending, partial >>
    /\ UNCHANGED << cut, owed, firstBegun, runFirstId >>
    /\ UNCHANGED otherVars
    /\ UNCHANGED lastFail

NextUpdate ==
    \/ StartUpdate
    \/ UpdBeginFile
    \/ UpdPrepare
    \/ UpdLookup
    \/ UpdDelete
    \/ UpdSettle
    \/ UpdInsert
    \/ UpdFileDone
    \/ UpdNextFile
    \/ UpdRaise
    \/ UpdEndRun
    \/ Kill

SpecUpdate == Init /\ [][NextUpdate]_vars

\* ================================== process_markdown_directory (legacy)
\* the variables process_markdown_directory never reads or writes
insVars == << disk, progress, ci, attempt, exc, saveRet, records_to_delete,
              slept, doneChunks, committed, loaded, pending, partial, snap,
              cut, owed, firstBegun, call, ret >>

\* extract_title_from_chunk(chunk): the header path when the chunk has one,
\* else the first line of its content
ExtractTitle(f, i) == IF HeaderPath(f, i) # "" THEN HeaderPath(f, i) ELSE "overview"

\* what the chat completion request can come back with
Responses == {"request_error", "no_content", "not_json", "json_not_object",
              "json_without_summary", "json_with_summary"}

SummaryPlaceholder == "Error generating summary"

\* GetTitleAndSummary, had there been no except clause around the whole body
GetTitleAndSummary_NoHandler(f, i, resp) ==
    IF resp = "not_json"
      THEN [raised |-> FALSE, title |-> ExtractTitle(f, i), summary |-> SummaryPlaceholder]
    ELSE IF resp = "json_with_summary"
      THEN [raised |-> FALSE, title |-> ExtractTitle(f, i), summary |-> "summary"]
    ELSE [raised |-> TRUE, title |-> "", summary |-> ""]

\* get_title_and_summary(chunk, url), by the point at which the body stops
GetTitleAndSummary(f, i, resp) ==
    LET handler == [raised |-> FALSE, title |-> ExtractTitle(f, i),
                    summary |-> SummaryPlaceholder]
    IN  IF resp = "request_error" THEN handler      \* create(...) raises
        ELSE IF resp = "no_content" THEN handler    \* None.startswith: AttributeError
        ELSE IF resp = "not_json"                   \* json.JSONDecodeError
          THEN [raised |-> FALSE, title |-> ExtractTitle(f, i),
                summary |-> SummaryPlaceholder]
        ELSE IF resp = "json_not_object" THEN handler       \* TypeError
        ELSE IF resp = "json_without_summary" THEN handler  \* KeyError
        ELSE [raised |-> FALSE, title |-> ExtractTitle(f, i), summary |-> "summary"]

\* the length of the vectors of text-embedding-3-small
EmbeddingLength == 1536

\* [0] * 1536
ZeroVector == [kind |-> "zero", len |-> 1536]

\* GetEmbedding, had the except clause returned no vector
GetEmbedding_Unset(ok) ==
    IF ok THEN [kind |-> "model", len |-> EmbeddingLength]
          ELSE [kind |-> "unset", len |-> 0]

\* get_embedding(text): the vector of the response, or the zero vector when
\* the request raised
GetEmbedding(ok) ==
    IF ok THEN [kind |-> "model", len |-> EmbeddingLength] ELSE ZeroVector

\* LegChunkNumber, had the index been taken when the task finishes
LegChunkNumber_Completion(i, finished) == Cardinality(finished)

\* the chunk_number of the task created for enumerate(chunks)[i]; finished
\* are the tasks that have returned before it
LegChunkNumber(i, finished) == i

\* the ProcessedChunk of chunk i of file f
ProcessedChunk(f, i, number, extracted, embedding) ==
    [url |-> ConvertPathToUrl(f, HeaderPath(f, i)),
     chunk_number |-> number,
     title |-> extracted.title,
     summary |-> extracted.summary,
     content |-> [file |-> f, position |-> i],
     version |-> VersionInt(f.vstr),
     filename |-> FileName(f),
     version_str |-> FormatVersion(VersionInt(f.vstr)),
     embedding |-> embedding]

\* supabase.table("odoo_docs").insert(data).execute()
InsertChunk(rows, chunk, id) ==
    rows \cup {[id |-> id, url |-> chunk.url, chunk_number |-> chunk.chunk_number,
                title |-> chunk.title, summary |-> chunk.summary,
                content |-> chunk.content,
                version |-> chunk.version, filename |-> chunk.filename,
                version_str |-> chunk.version_str, embedding |-> chunk.embedding]}

\* process_markdown_directory(base_directory) is called
StartLegacy ==
    /\ pc = "idle"
    /\ runs < MaxRuns
    /\ runs' = runs + 1
    /\ mode' = "legacy"
    /\ pc' = "lversion"
    /\ result' = "running"
    /\ vi' = 1 /\ fi' = 1
    /\ touched' = {}
    /\ runFirstId' = nextId
    /\ lastFail' = NoFail
    /\ legTasks' = NoTasks /\ legInserted' = << >>
    /\ legErrors' = {} /\ legOk' = {}
    /\ UNCHANGED << nchunks, store, nextId, base_directory, faults >>
    /\ UNCHANGED insVars

\* for version in version_dirs: the directory exists, its files are listed
LegScanVersion ==
    /\ mode = "legacy" /\ pc = "lversion"
    /\ vi <= Len(version_dirs)
    /\ IF VersionExists(CurVersionStr)
         THEN pc' = "lfiles" /\ fi' = 1 /\ UNCHANGED vi
         ELSE vi' = vi + 1 /\ UNCHANGED << pc, fi >>
    /\ UNCHANGED << nchunks, store, nextId, runs, mode, result, touched,
                    runFirstId, lastFail, otherVars >>
    /\ UNCHANGED insVars

\* the files of the version are exhausted
LegEndVersion ==
    /\ mode = "legacy" /\ pc = "lfiles"
    /\ fi > Len(MarkdownFiles(CurVersionStr))
    /\ vi' = vi + 1
    /\ pc' = "lversion"
    /\ UNCHANGED << nchunks, store, nextId, runs, mode, result, fi, touched,
                    runFirstId, lastFail, otherVars >>
    /\ UNCHANGED insVars

\* process_markdown_file(file_path) is awaited: the file is read and
\* chunked and the tasks are created, or open/read raises and
\* process_markdown_directory logs the error and continues
LegBeginFile ==
    /\ mode = "legacy" /\ pc = "lfiles"
    /\ fi <= Len(MarkdownFiles(CurVersionStr))
    /\ touched' = touched \cup {CurFile}
    /\ legTasks' = NoTasks /\ legInserted' = << >>
    /\ \/ /\ pc' = "ltasks"
          /\ lastFail' = NoFail
          /\ UNCHANGED << fi, legErrors, faults >>
       \/ /\ faults < MaxFaults
          /\ faults' = faults + 1
          /\ legErrors' = legErrors \cup {CurFile}
          /\ lastFail' = [file |-> CurFile, index |-> 0, stage |-> "read",
                          attempt |-> 0]
          /\ fi' = fi + 1
          /\ UNCHANGED pc
    /\ UNCHANGED << nchunks, store, nextId, runs, mode, result, vi, runFirstId,
                    base_directory, legOk >>
    /\ UNCHANGED insVars

\* the number of chunks of the file process_markdown_file is working on
LegChunks == 0..(nchunks[CurFile] - 1)

\* the failures a process_chunk task meets: a response without a summary,
\* a failed embedding request
TaskFaults(resp, ok) ==
    (IF resp = "json_with_summary" THEN 0 ELSE 1) + (IF ok THEN 0 ELSE 1)

\* LegTaskRaise, had process_markdown_directory let the error of the file
\* end the run
LegTaskRaise_Stop ==
    /\ mode = "legacy" /\ pc = "ltasks"
    /\ \E i \in LegChunks \ DOMAIN legTasks :
         /\ \/ ~LocatorResolves(FilePath(base_directory, CurFile))
            \/ \E resp \in Responses : GetTitleAndSummary(CurFile, i, resp).raised
         /\ lastFail' = [file |-> CurFile, index |-> i, stage |-> "locator",
                         attempt |-> 0]
    /\ legErrors' = legErrors \cup {CurFile}
    /\ legTasks' = NoTasks
    /\ pc' = "idle"
    /\ mode' = "none"
    /\ result' = "raised"
    /\ UNCHANGED << nchunks, store, nextId, runs, vi, fi, touched,
                    runFirstId, base_directory, legInserted, legOk, faults >>
    /\ UNCHANGED insVars

\* a process_chunk task raises (convert_path_to_url, or an error that left
\* get_title_and_summary): asyncio.gather hands the error to
\* process_markdown_file, which re-raises; process_markdown_directory logs
\* it and continues with the next file
LegTaskRaise ==
    /\ mode = "legacy" /\ pc = "ltasks"
    /\ \E i \in LegChunks \ DOMAIN legTasks :
         \/ /\ ~LocatorResolves(FilePath(base_directory, CurFile))
            /\ lastFail' = [file |-> CurFile, index |-> i, stage |-> "locator",
                            attempt |-> 0]
         \/ /\ LocatorResolves(FilePath(base_directory, CurFile))
            /\ \E resp \in Responses : GetTitleAndSummary(CurFile, i, resp).raised
            /\ lastFail' = [file |-> CurFile, index |-> i, stage |-> "summary",
                            attempt |-> 0]
    /\ legErrors' = legErrors \cup {CurFile}
    /\ legTasks' = NoTasks
    /\ fi' = fi + 1
    /\ pc' = "lfiles"
    /\ UNCHANGED << nchunks, store, nextId, runs, mode, result, vi, touched,
                    runFirstId, base_directory, legInserted, legOk, faults >>
    /\ UNCHANGED insVars

\* one of the process_chunk tasks of the gather returns its ProcessedChunk;
\* the tasks finish in any order
LegTask ==
    /\ mode = "legacy" /\ pc = "ltasks"
    /\ LocatorResolves(FilePath(base_directory, CurFile))
    /\ \E i \in LegChunks \ DOMAIN legTasks :
       \E resp \in Responses, ok \in BOOLEAN :
         LET extracted == GetTitleAndSummary(CurFile, i, resp)
             number == LegChunkNumber(i, DOMAIN legTasks)
         IN  /\ ~extracted.raised
             /\ faults + TaskFaults(resp, ok) <= MaxFaults
             /\ faults' = faults + TaskFaults(resp, ok)
             /\ legTasks' = legTasks @@
                   (i :> [summary_ok |-> resp = "json_with_summary", emb_ok |-> ok,
                          chunk |-> ProcessedChunk(CurFile, i, number, extracted,
                                                   GetEmbedding(ok))])
    /\ UNCHANGED << nchunks, store, nextId, runs, mode, pc, result, vi, fi,
                    touched, runFirstId, lastFail, base_directory, legInserted,
                    legErrors, legOk >>
    /\ UNCHANGED insVars

\* processed_chunks = await asyncio.gather(*tasks) returns
LegGathered ==
    /\ mode = "legacy" /\ pc = "ltasks"
    /\ DOMAIN legTasks = LegChunks
    /\ pc' = "linserts"
    /\ UNCHANGED << nchunks, store, nextId, runs, mode, result, vi, fi,
                    touched, runFirstId, lastFail, otherVars >>
    /\ UNCHANGED insVars

\* insert_chunk(processed_chunks[k]): the row is inserted, or the insert
\* raises and insert_chunk prints the error and returns None. insert_chunk
\* never awaits, so the insert tasks run one after the other in list order
LegInsert ==
    /\ mode = "legacy" /\ pc = "linserts"
    /\ Len(legInserted) < nchunks[CurFile]
    /\ LET k == Len(legInserted)
       IN \/ /\ store' = InsertChunk(store, legTasks[k].chunk, nextId)
             /\ nextId' = nextId + 1
             /\ legInserted' = Append(legInserted, TRUE)
             /\ UNCHANGED faults
          \/ /\ faults < MaxFaults
             /\ faults' = faults + 1
             /\ legInserted' = Append(legInserted, FALSE)
             /\ UNCHANGED << store, nextId >>
    /\ UNCHANGED << nchunks, runs, mode, pc, result, vi, fi, touched,
                    runFirstId, lastFail, base_directory, legTasks, legErrors,
                    legOk >>
    /\ UNCHANGED insVars

\* await asyncio.gather(*insert_tasks) returns: process_markdown_file
\* returns, "Successfully processed" is printed
LegFileDone ==
    /\ mode = "legacy" /\ pc = "linserts"
    /\ Len(legInserted) = nchunks[CurFile]
    /\ legOk' = legOk \cup {CurFile}
    /\ legTasks' = NoTasks /\ legInserted' = << >>
    /\ fi' = fi + 1
    /\ pc' = "lfiles"
    /\ UNCHANGED << nchunks, store, nextId, runs, mode, result, vi, touched,
                    runFirstId, lastFail, base_directory, legErrors, faults >>
    /\ UNCHANGED insVars

\* the loop over version_dirs is exhausted: process_markdown_directory
\* returns
LegEndRun ==
    /\ mode = "legacy" /\ pc = "lversion"
    /\ vi > Len(version_dirs)
    /\ pc' = "idle"
    /\ mode' = "none"
    /\ result' = "ok"
    /\ UNCHANGED << nchunks, store, nextId, runs, vi, fi, touched,
                    runFirstId, lastFail, otherVars >>
    /\ UNCHANGED insVars

NextLegacy ==
    \/ StartLegacy
    \/ LegScanVersion
    \/ LegEndVersion
    \/ LegBeginFile
    \/ LegTaskRaise
    \/ LegTask
    \/ LegGathered
    \/ LegInsert
    \/ LegFileDone
    \/ LegEndRun
    \/ Kill

SpecLegacy == Init /\ [][NextLegacy]_vars

\* the two pipelines of class DocumentProcessor
NextProcessor ==
    \/ NextInsert
    \/ NextUpdate

SpecProcessor == Init /\ [][NextProcessor]_vars

\* the two insert-only pipelines: process_directory and
\* process_markdown_directory
NextIngest ==
    \/ NextInsert
    \/ NextLegacy

SpecIngest == Init /\ [][NextIngest]_vars

Next ==
    \/ NextInsert
    \/ NextUpdate
    \/ NextLegacy

Spec == Init /\ [][Next]_vars

\* ===================================================== texts (pure code)
\* A text is the sequence of its symbols. A symbol is one character, or a
\* word of letters that no function looks inside.
Digits == << "0", "1", "2", "3", "4", "5", "6", "7", "8", "9" >>

\* \d, [0-9]
IsDigit(c) == \E d \in 1..10 : Digits[d] = c

DigitVal(c) == (CHOOSE d \in 1..10 : Digits[d] = c) - 1

UpperWords == {"Install", "Database", "Just"}

LowerWords == {"install", "database", "just", "management", "versions",
               "content", "md", "txt", "a", "b", "x", "some", "text"}

\* [a-zA-Z]
IsLetter(c) == c \in UpperWords \cup LowerWords

\* \s
IsSpace(c) == c \in {" ", "\n"}

\* str.lower() of one symbol
LowerSymbol(c) ==
    IF c = "Install" THEN "install"
    ELSE IF c = "Database" THEN "database"
    ELSE IF c = "Just" THEN "just"
    ELSE c

Max(S) == CHOOSE x \in S : \A y \in S : y <= x
Min(S) == CHOOSE x \in S : \A y \in S : x <= y

\* s[k-1:] in Python terms: the text from position k on
From(s, k) == SubSeq(s, k, Len(s))

\* the symbols of a class of a pattern: #, \s, \d
HashClass == {"#"}
SpaceClass == {c \in {" ", "\n"} : IsSpace(c)}
DigitClass == {Digits[d] : d \in 1..10}

\* the number of symbols from position k on that are of the class, as a
\* greedy quantifier takes them
RunLen(s, k, class) ==
    Max({n \in 0..(Len(s) - k + 1) : \A i \in k..(k + n - 1) : s[i] \in class})

IsHash(c) == c \in HashClass

\* the length of the match of \[#+\]\s* at the start of s, 0 when none
MarkerLen(s) ==
    IF Len(s) >= 3 /\ s[1] = "["
      THEN LET h == RunLen(s, 2, HashClass)
           IN  IF h >= 1 /\ Len(s) >= h + 2 /\ s[h + 2] = "]"
                 THEN h + 2 + RunLen(s, h + 3, SpaceClass)
                 ELSE 0
      ELSE 0

\* re.sub(r'\[#+\]\s*', '', s)
RECURSIVE StripMarkers(_)
StripMarkers(s) ==
    IF s = << >> THEN << >>
    ELSE IF MarkerLen(s) > 0 THEN StripMarkers(From(s, MarkerLen(s) + 1))
    ELSE << s[1] >> \o StripMarkers(Tail(s))

\* the length of the match of \{#.*?\} at the start of s, 0 when none
CustomAnchorLen(s) ==
    IF Len(s) >= 3 /\ s[1] = "{" /\ s[2] = "#"
      THEN LET ends == {j \in 3..Len(s) :
                          s[j] = "}" /\ \A i \in 3..(j - 1) : s[i] # "\n"}
           IN  IF ends = {} THEN 0 ELSE Min(ends)
      ELSE 0

\* re.sub(r'\{#.*?\}', '', s)
RECURSIVE StripCustomAnchors(_)
StripCustomAnchors(s) ==
    IF s = << >> THEN << >>
    ELSE IF CustomAnchorLen(s) > 0
      THEN StripCustomAnchors(From(s, CustomAnchorLen(s) + 1))
    ELSE << s[1] >> \o StripCustomAnchors(Tail(s))

\* [a-zA-Z0-9\s-]
IsAnchorSource(c) == IsLetter(c) \/ IsDigit(c) \/ IsSpace(c) \/ c = "-"

\* re.sub(r'[^a-zA-Z0-9\s-]', '', s)
StripSpecial(s) == SelectSeq(s, IsAnchorSource)

\* s.lower()
Lower(s) == [i \in 1..Len(s) |-> LowerSymbol(s[i])]

\* s.strip()
Strip(s) ==
    LET lead == RunLen(s, 1, SpaceClass)
        keep == {j \in lead..Len(s) : \A i \in (j + 1)..Len(s) : IsSpace(s[i])}
    IN  IF lead = Len(s) THEN << >> ELSE SubSeq(s, lead + 1, Min(keep))

\* re.sub(r'\s+', '-', s)
RECURSIVE Hyphenate(_)
Hyphenate(s) ==
    IF s = << >> THEN << >>
    ELSE IF IsSpace(s[1])
      THEN << "-" >> \o Hyphenate(From(s, RunLen(s, 1, SpaceClass) + 1))
    ELSE << s[1] >> \o Hyphenate(Tail(s))

\* clean_section_name(title)
clean_section_name(title) ==
    Hyphenate(Strip(Lower(StripSpecial(StripCustomAnchors(StripMarkers(title))))))

\* s starts with the text p
StartsWith(s, p) == Len(s) >= Len(p) /\ SubSeq(s, 1, Len(p)) = p

\* s.split(sep)[-1], sep not empty: the occurrences of sep are taken from
\* the left, one after the end of the other
RECURSIVE LastPiece(_, _)
LastPiece(s, sep) ==
    LET at == {k \in 1..(Len(s) - Len(sep) + 1) : StartsWith(From(s, k), sep)}
    IN  IF at = {} THEN s ELSE LastPiece(From(s, Min(at) + Len(sep)), sep)

\* extract_section_anchor(header_path)
extract_section_anchor(header_path) ==
    IF header_path = << >> THEN << >>
    ELSE clean_section_name(StripMarkers(LastPiece(header_path, << " ", ">", " " >>)))

\* the position of the closing "/" when r'/versions/\d+\.\d+/' matches s at
\* position k, 0 when it does not
VersionEnd(s, k) ==
    IF Len(s) >= k + 2 /\ s[k] = "/" /\ s[k + 1] = "versions" /\ s[k + 2] = "/"
      THEN LET a == RunLen(s, k + 3, DigitClass)
           IN  IF a >= 1 /\ Len(s) >= k + 3 + a /\ s[k + 3 + a] = "."
                 THEN LET b == RunLen(s, k + 4 + a, DigitClass)
                      IN  IF b >= 1 /\ Len(s) >= k + 4 + a + b
                                /\ s[k + 4 + a + b] = "/"
                            THEN k + 4 + a + b
                            ELSE 0
                 ELSE 0
      ELSE 0

\* the positions at which r'/versions/(\d+\.\d+)/' matches
VersionStarts(s) == {k \in 1..Len(s) : VersionEnd(s, k) > 0}

\* int(digits)
RECURSIVE IntOf(_)
IntOf(ds) ==
    IF ds = << >> THEN 0
    ELSE IntOf(SubSeq(ds, 1, Len(ds) - 1)) * 10 + DigitVal(ds[Len(ds)])

\* int(float(version_str) * 10), had the factor been 100
VersionNumber_Hundred(version_str) ==
    LET dot == Min({k \in 1..Len(version_str) : version_str[k] = "."})
    IN  IntOf(SubSeq(version_str, 1, dot - 1)) * 100 + DigitVal(version_str[dot + 1]) * 10

\* int(float(version_str) * 10): the fraction beyond the first digit is
\* truncated
VersionNumber(version_str) ==
    LET dot == Min({k \in 1..Len(version_str) : version_str[k] = "."})
    IN  IntOf(SubSeq(version_str, 1, dot - 1)) * 10 + DigitVal(version_str[dot + 1])

\* ContentEnds, had the group been (.*?), which matches nothing too
ContentEnds_Star(s, k) ==
    LET e == VersionEnd(s, k)
    IN  IF e = 0 THEN {}
        ELSE {j \in e..(Len(s) - 2) :
                /\ \A i \in (e + 1)..j : s[i] # "\n"
                /\ s[j + 1] = "." /\ s[j + 2] = "md"
                /\ \/ j + 2 = Len(s)
                   \/ j + 3 = Len(s) /\ s[j + 3] = "\n"}

\* the ends j of the lazy group of r'/versions/\d+\.\d+/(.+?)\.md$' when the
\* pattern is tried at position k: the group is s[VersionEnd+1..j]
ContentEnds(s, k) ==
    LET e == VersionEnd(s, k)
    IN  IF e = 0 THEN {}
        ELSE {j \in (e + 1)..(Len(s) - 2) :
                /\ \A i \in (e + 1)..j : s[i] # "\n"
                /\ s[j + 1] = "." /\ s[j + 2] = "md"
                /\ \/ j + 2 = Len(s)
                   \/ j + 3 = Len(s) /\ s[j + 3] = "\n"}

\* re.sub(r'^content/', '', content_path)
StripContent(content_path) ==
    IF StartsWith(content_path, << "content", "/" >>)
      THEN From(content_path, 3)
      ELSE content_path

BaseUrl == << "https://www.odoo.com/documentation/" >>

\* Fragment, had the anchor been appended without looking at it
Fragment_Always(section_anchor) == << "#" >> \o section_anchor

\* if section_anchor: url = f"{url}#{section_anchor}"
Fragment(section_anchor) ==
    IF section_anchor # << >> THEN << "#" >> \o section_anchor ELSE << >>

Raised(what) == [raised |-> TRUE, error |-> what, url |-> << >>, version |-> 0]

\* the positions at which r'/versions/\d+\.\d+/(.+?)\.md$' matches
ContentStarts(s) == {k \in 1..Len(s) : ContentEnds(s, k) # {}}

\* convert_path_to_url(file_path, header_path)
convert_path_to_url(file_path, header_path) ==
    IF VersionStarts(file_path) = {} THEN Raised("version")
    ELSE IF ContentStarts(file_path) = {} THEN Raised("content")
    ELSE
      LET v == Min(VersionStarts(file_path))
          version_str == SubSeq(file_path, v + 3, VersionEnd(file_path, v) - 1)
          p == Min(ContentStarts(file_path))
          last == Min(ContentEnds(file_path, p))
          content_path == StripContent(
                              SubSeq(file_path, VersionEnd(file_path, p) + 1, last))
      IN  [raised |-> FALSE, error |-> "none",
           url |-> BaseUrl \o version_str \o << "/" >> \o content_path
                     \o << ".html" >> \o Fragment(extract_section_anchor(header_path)),
           version |-> VersionNumber(version_str)]

\* str(n) for a natural number
RECURSIVE TextOf(_)
TextOf(n) ==
    IF n < 10 THEN << Digits[n + 1] >>
    ELSE TextOf(n \div 10) \o << Digits[(n % 10) + 1] >>

\* f"{version/10:.1f}" as a text
FormatVersionText(version) ==
    TextOf(version \div 10) \o << "." >> \o TextOf(version % 10)

\* ------------------------------------------------ calls of the locator
\* the variables of the pipelines
pipeVars == << nchunks, disk, store, nextId, runs, mode, pc, progress, vi, fi,
               ci, attempt, exc, saveRet, result, slept, doneChunks, committed,
               loaded, touched, pending, partial, records_to_delete, snap, cut,
               owed, firstBegun, runFirstId, base_directory, lastFail,
               legTasks, legInserted, legErrors, legOk, faults >>

\* no pipeline runs while a pure function is called
NoPipeline ==
    /\ nchunks = [f \in AllFiles |-> 0]
    /\ base_directory = << >>
    /\ PipelineStart

\* what comes before the version directory in a path
Prefixes == { << >>, << "x" >>, << "/", "x" >>, << "/", "x", "/", "versions" >> }

\* the version directory of a path, well-formed (with the numbers of its
\* version) or not
VersionDir(major, minor) ==
    [text |-> << "/", "versions", "/" >> \o major \o << "." >> \o minor \o << "/" >>,
     str |-> major \o << "." >> \o minor]

VersionDirs ==
    { VersionDir(<< "1", "7" >>, << "0" >>), VersionDir(<< "1", "7" >>, << "5" >>),
      VersionDir(<< "1", "6" >>, << "0" >>), VersionDir(<< "1", "8" >>, << "5" >>),
      VersionDir(<< "8" >>, << "0" >>) }

BadVersionDirs ==
    { << "versions", "/", "1", "7", ".", "0", "/" >>,
      << "/", "versions", "/", "1", "7", "/" >>,
      << "/", "versions", "/", "1", "7", ".", "0" >>,
      << "/", "versions", "/", ".", "0", "/" >>,
      << "/", "1", "7", ".", "0", "/" >>,
      << "/" >> }

\* what comes after the version directory
Remainders ==
    { << "content", "/", "a", "/", "b", ".", "md" >>,
      << "a", "/", "b", ".", "md" >>,
      << "a", "/", "content", "/", "b", ".", "md" >>,
      << "content", "/", ".", "md" >>,
      << "a", ".", "md", ".", "md" >>,
      << "a", "/", "b", ".", "txt" >>,
      << "a", "/", "b", ".", "md", "/" >>,
      << ".", "md" >>,
      << "md" >>,
      << >> }

HeaderPaths ==
    { << >>,
      << "[", "#", "#", "]", " ", "Install" >>,
      << "[", "#", "]", " ", "Database", " ", "management", " ", ">", " ",
         "[", "#", "#", "]", " ", "Install" >>,
      << "[", "#", "#", "]", " ", "Install", " ", "{", "#", "x", "}" >>,
      << "[", "#", "#", "]", " ", "a", " ", "/", " ", "b" >>,
      << "[", "#", "]", " ", "&" >>,
      << "[", "#", "]", " ", "{", "#", "x", "}" >>,
      << "[", "#", "]", " ", "-", " ", "1", "7", ".", "0" >>,
      << "Install", " ", ">", " " >>,
      << "[", "#", "]", " ", "Install", "_", "x", "\n", "b" >> }

LocatorCalls ==
    { [fn |-> "convert_path_to_url", prefix |-> p, dir |-> d, rest |-> r,
       file_path |-> p \o d \o r, header_path |-> h] :
          p \in Prefixes,
          d \in {v.text : v \in VersionDirs} \cup BadVersionDirs,
          r \in Remainders, h \in HeaderPaths }

InitLocator ==
    /\ NoPipeline
    /\ call \in LocatorCalls
    /\ ret = NoRet

\* convert_path_to_url(file_path, header_path) is called
CallConvertPathToUrl ==
    /\ call.fn = "convert_path_to_url" /\ ~ret.done
    /\ ret' = [done |-> TRUE,
               value |-> convert_path_to_url(call.file_path, call.header_path)]
    /\ UNCHANGED << pipeVars, call >>

SpecLocator == InitLocator /\ [][CallConvertPathToUrl]_vars

\* ------------------------------------------------ titles (pure code)
\* the number of characters of a symbol and of a text
Width(c) ==
    CASE c \in {"Database"} -> 8
      [] c \in {"Install", "install", "content"} -> 7
      [] c \in {"database", "versions"} -> 8
      [] c \in {"management"} -> 10
      [] c \in {"Just", "just", "some", "text"} -> 4
      [] c \in {"txt"} -> 3
      [] c \in {"md"} -> 2
      [] OTHER -> 1

RECURSIVE CharLen(_)
CharLen(s) == IF s = << >> THEN 0 ELSE Width(Head(s)) + CharLen(Tail(s))

\* s[:n], for a text whose n-th character ends a symbol
RECURSIVE Take(_, _)
Take(s, n) ==
    IF s = << >> \/ Width(Head(s)) > n THEN << >>
    ELSE << Head(s) >> \o Take(Tail(s), n - Width(Head(s)))

\* the pattern occurs in the text
Contains(s, pat) ==
    \E k \in 1..(Len(s) - Len(pat) + 1) : SubSeq(s, k, k + Len(pat) - 1) = pat

\* the position of the first "\n" at or after k, Len(s) + 1 if there is none
LineEnd(s, k) == Min({j \in k..Len(s) : s[j] = "\n"} \cup {Len(s) + 1})

\* content.split("\n")[0]
FirstLine(s) == SubSeq(s, 1, LineEnd(s, 1) - 1)

\* "\n".join(content.split("\n")[1:])
AfterFirstLine(s) == From(s, LineEnd(s, 1) + 1)

\* the first line is taken for a heading path and dropped
DropHeaderPathLine(content) ==
    IF /\ Contains(FirstLine(content), << "[", "#" >>)
       /\ Contains(FirstLine(content), << " ", ">", " " >>)
    THEN AfterFirstLine(content)
    ELSE content

\* ^ under re.MULTILINE
LineStarts(s) == {k \in 1..Len(s) : k = 1 \/ s[k - 1] = "\n"}

\* where group 1 of ^#+\s+(.+)$ starts for a match that starts at k, 0 if
\* there is none: #+ takes the run of hashes, \s+ the longest run of
\* spaces and newlines that leaves a character other than "\n" for (.+)
HeaderGroupStart(s, k) ==
    LET h == RunLen(s, k, HashClass)
        blanks == {w \in 1..(Len(s) - k - h + 1) :
                      \A i \in (k + h)..(k + h + w - 1) : IsSpace(s[i])}
        ws == {w \in blanks : k + h + w <= Len(s) /\ s[k + h + w] # "\n"}
    IN  IF h = 0 \/ ws = {} THEN 0 ELSE k + h + Max(ws)

\* re.search(r'^#+\s+(.+)$', content, re.MULTILINE): the starts of a match
HeaderStarts(s) == {k \in LineStarts(s) : HeaderGroupStart(s, k) # 0}

\* first_line[:97] + "..." for a line of more than 100 characters
Truncate(first_line) ==
    IF CharLen(first_line) > 100
    THEN Take(first_line, 97) \o << ".", ".", "." >>
    ELSE first_line

\* a metadata entry: the key is in the dictionary or not, and its value
Entry(v) == [in |-> TRUE, v |-> v]
NoEntry == [in |-> FALSE, v |-> << >>]

\* `key in metadata and metadata[key]`
Truthy(e) == e.in /\ e.v # << >>

\* the levels whose header is in the metadata and not empty
HeaderLevels(metadata) == {l \in 1..4 : Truthy(metadata.Header[l])}

extract_title_from_chunk(chunk) ==
    IF Truthy(chunk.metadata.header_path) THEN chunk.metadata.header_path.v
    ELSE IF HeaderLevels(chunk.metadata) # {}
    THEN chunk.metadata.Header[Min(HeaderLevels(chunk.metadata))].v
    ELSE LET content == DropHeaderPathLine(chunk.content)
         IN  IF HeaderStarts(content) # {}
             THEN LET g == HeaderGroupStart(content, Min(HeaderStarts(content)))
                  IN  SubSeq(content, g, LineEnd(content, g) - 1)
             ELSE Truncate(Strip(FirstLine(content)))

\* ------------------------------------------------ calls of the title
\* a line of n characters
LongLine(n) == [i \in 1..n |-> "a"]

TextInstall == << "[", "#", "]", " ", "Install" >>

TextPath ==
    << "[", "#", "]", " ", "Database", " ", "management", " ", ">", " ",
       "[", "#", "#", "]", " ", "Install" >>

\* the header_path entry of the metadata
HeaderPathEntries == { NoEntry, Entry(<< >>), Entry(TextInstall), Entry(TextPath) }

\* the entries 'Header 1' .. 'Header 4' of the metadata
HeaderEntries ==
    { [l \in 1..4 |-> NoEntry],
      [l \in 1..4 |-> IF l = 1 THEN Entry(<< >>) ELSE NoEntry],
      [l \in 1..4 |-> IF l = 1 THEN Entry(<< >>)
                      ELSE IF l = 2 THEN Entry(<< "Install" >>) ELSE NoEntry],
      [l \in 1..4 |-> IF l = 1 THEN Entry(<< "Database", " ", "management" >>)
                      ELSE IF l = 2 THEN Entry(<< "Install" >>) ELSE NoEntry],
      [l \in 1..4 |-> IF l = 4 THEN Entry(<< "a" >>) ELSE NoEntry] }

Contents ==
    { << "Just", " ", "some", " ", "text", "\n", "some", " ", "text" >>,
      TextPath \o << "\n", "#", "#", " ", "Install", "\n", "some", " ", "text" >>,
      TextPath \o << "\n", "some", " ", "text", "\n", "#", " ", "Install" >>,
      TextPath,
      TextInstall \o << "\n", "some", " ", "text" >>,
      << "some", " ", "text", "\n", "#", " ", "Database", " ", "management", "\n",
         "#", "#", " ", "Install" >>,
      << "#", "Install", "\n", "x" >>,
      << "x", " ", "#", " ", "Install" >>,
      << "#", " ", "Install", " ", " ", "\n", "x" >>,
      << " ", " ", "some", " ", "text", " ", "\n", "x" >>,
      << "\n", "some", " ", "text" >>,
      << >>,
      << "#", "\n", "some", " ", "text" >>,
      << "#", "#", " ", "\n", "\n", "some", " ", "text" >>,
      << "#", " ", " " >>,
      << "#", "\n" >>,
      LongLine(100) \o << "\n", "x" >>,
      LongLine(101) \o << "\n", "x" >>,
      << " " >> \o LongLine(100) \o << " ", " " >>,
      << " " >> \o LongLine(101),
      << "#", " " >> \o LongLine(101) }

TitleCalls ==
    { [fn |-> "extract_title_from_chunk",
       chunk |-> [content |-> c, metadata |-> [header_path |-> hp, Header |-> hs]]] :
          c \in Contents, hp \in HeaderPathEntries, hs \in HeaderEntries }

InitTitle ==
    /\ NoPipeline
    /\ call \in TitleCalls
    /\ ret = NoRet

\* extract_title_from_chunk(chunk) is called
CallExtractTitle ==
    /\ call.fn = "extract_title_from_chunk" /\ ~ret.done
    /\ ret' = [done |-> TRUE, value |-> extract_title_from_chunk(call.chunk)]
    /\ UNCHANGED << pipeVars, call >>

SpecTitle == InitTitle /\ [][CallExtractTitle]_vars

\* ------------------------------------------------ heading paths (pure code)
\* "#" * i
Hashes(i) == [k \in 1..i |-> "#"]

\* f"[{header_level}] {metadata[key]}"
HeaderSegment(i, text) == << "[" >> \o Hashes(i) \o << "]", " " >> \o text

\* a header is listed whenever its key is in the metadata
HeaderIncluded_KeepEmpty(metadata, i) == metadata.Header[i].in

\* if key in metadata and metadata[key]
HeaderIncluded(metadata, i) == Truthy(metadata.Header[i])

\* the list `headers` after the iterations i..4 of the loop
RECURSIVE HeadersFrom(_, _)
HeadersFrom(metadata, i) ==
    IF i > 4 THEN << >>
    ELSE (IF HeaderIncluded(metadata, i)
            THEN << HeaderSegment(i, metadata.Header[i].v) >> ELSE << >>)
         \o HeadersFrom(metadata, i + 1)

\* sep.join(list)
RECURSIVE Join(_, _)
Join(list, sep) ==
    IF list = << >> THEN << >>
    ELSE IF Len(list) = 1 THEN list[1]
    ELSE list[1] \o sep \o Join(Tail(list), sep)

create_header_path(metadata) ==
    LET headers == HeadersFrom(metadata, 1)
    IN  IF headers # << >> THEN Join(headers, << " ", ">", " " >>) ELSE << >>

\* chunk_markdown: the dictionary made of one split of the splitters
ChunkOfSplit(split) ==
    LET header_path == create_header_path(split.metadata)
    IN  [content |-> IF header_path # << >>
                       THEN header_path \o << "\n" >> \o split.page_content
                       ELSE split.page_content,
         metadata |-> [header_path |-> Entry(header_path),
                       Header |-> split.metadata.Header]]

\* the text of the heading of a level
LevelText(i) ==
    CASE i = 1 -> << "Database", " ", "management" >>
      [] i = 2 -> << "Install" >>
      [] i = 3 -> << "a", " ", "/", " ", "b" >>
      [] i = 4 -> << "x" >>

\* the metadata the header splitter gives a split: every level without
\* heading, with an empty heading or with a heading
HeaderKinds == [1..4 -> {"none", "empty", "text"}]

SplitHeaders(kinds) ==
    [Header |-> [i \in 1..4 |->
                    CASE kinds[i] = "none" -> NoEntry
                      [] kinds[i] = "empty" -> Entry(<< >>)
                      [] kinds[i] = "text" -> Entry(LevelText(i))]]

PageContents ==
    { << "some", " ", "text" >>,
      << "#", "#", " ", "Install", "\n", "some", " ", "text" >> }

ChunkCalls ==
    { [fn |-> "chunk_markdown",
       kinds |-> k,
       split |-> [metadata |-> SplitHeaders(k), page_content |-> c]] :
          k \in HeaderKinds, c \in PageContents }

InitChunk ==
    /\ NoPipeline
    /\ call \in ChunkCalls
    /\ ret = NoRet

\* the body of the loop over final_splits in chunk_markdown
CallChunkOfSplit ==
    /\ call.fn = "chunk_markdown" /\ ~ret.done
    /\ ret' = [done |-> TRUE,
               header_path |-> create_header_path(call.split.metadata),
               value |-> ChunkOfSplit(call.split)]
    /\ UNCHANGED << pipeVars, call >>

SpecChunk == InitChunk /\ [][CallChunkOfSplit]_vars

\* ------------------------------------------ get_embedding (all variants)
\* the length of the vectors of an embedding model
ModelDimension(model) ==
    CASE model = "text-embedding-3-small" -> 1536
      [] model = "text-embedding-3-large" -> 3072

\* the modules that define a get_embedding which returns a zero vector
\* when the request fails: the model it asks and the length of its vector
\* of zeros
EmbeddingVariants ==
    { [module |-> "terminal_chat", model |-> "text-embedding-3-small", zeros |-> 3072],
      [module |-> "streamlit_ui", model |-> "text-embedding-3-small", zeros |-> 3072],
      [module |-> "document_processor", model |-> "text-embedding-3-small", zeros |-> 1536],
      [module |-> "odoo_doc_expert", model |-> "text-embedding-3-small", zeros |-> 1536],
      [module |-> "core.chat_logic", model |-> "text-embedding-3-small", zeros |-> 1536] }

\* if len(text) > 8000: text = text[:8000] + "..."
RequestLength(n) == IF n > 8000 THEN 8000 + 3 ELSE n

\* get_embedding(text) of a variant, for a text of n characters: the vector
\* of the response, or [0] * zeros when the request raised
get_embedding(variant, n, ok) ==
    [input |-> RequestLength(n),
     vector |-> IF ok THEN [kind |-> "model", len |-> ModelDimension(variant.model)]
                      ELSE [kind |-> "zero", len |-> variant.zeros]]

\* the lengths of the texts
TextLengths == {0, 1, 100, 5000, 7999, 8000, 8001, 20000}

EmbeddingCalls ==
    { [fn |-> "get_embedding", variant |-> v, n |-> n, ok |-> ok] :
          v \in EmbeddingVariants, n \in TextLengths, ok \in BOOLEAN }

InitEmbedding ==
    /\ NoPipeline
    /\ call \in EmbeddingCalls
    /\ ret = NoRet

\* get_embedding(text) is called
CallGetEmbedding ==
    /\ call.fn = "get_embedding" /\ ~ret.done
    /\ ret' = [done |-> TRUE, value |-> get_embedding(call.variant, call.n, call.ok)]
    /\ UNCHANGED << pipeVars, call >>

SpecEmbedding == InitEmbedding /\ [][CallGetEmbedding]_vars

\* ------------------------------------ get_embeddings_concurrently
\* the most texts of one call
MaxTexts == 3

Texts == {"t1", "t2", "t3"}

\* the vector NomicEmbedding returns for a text
EmbeddingOf(text) == [of |-> text]

ConcurrentCalls ==
    { [fn |-> "get_embeddings_concurrently", texts |-> ts] :
          ts \in UNION {[1..n -> Texts] : n \in 0..MaxTexts} }

\* embeddings = [], every text is submitted to the executor
InitConcurrent ==
    /\ NoPipeline
    /\ call \in ConcurrentCalls
    /\ ret = [done |-> FALSE, yielded |-> {}, embeddings |-> << >>]

\* as_completed yields the future of text i, whichever finished next:
\* its result is appended, or its exception is logged
FutureCompleted ==
    /\ call.fn = "get_embeddings_concurrently" /\ ~ret.done
    /\ \E i \in (1..Len(call.texts)) \ ret.yielded :
       \E ok \in BOOLEAN :
          ret' = [done |-> FALSE,
                  yielded |-> ret.yielded \cup {i},
                  embeddings |-> IF ok THEN Append(ret.embeddings,
                                                  EmbeddingOf(call.texts[i]))
                                       ELSE ret.embeddings]
    /\ UNCHANGED << pipeVars, call >>

\* every future was yielded: return embeddings
ReturnEmbeddings ==
    /\ call.fn = "get_embeddings_concurrently" /\ ~ret.done
    /\ ret.yielded = 1..Len(call.texts)
    /\ ret' = [done |-> TRUE, yielded |-> ret.yielded, embeddings |-> ret.embeddings]
    /\ UNCHANGED << pipeVars, call >>

NextConcurrent ==
    \/ FutureCompleted
    \/ ReturnEmbeddings

SpecConcurrent == InitConcurrent /\ [][NextConcurrent]_vars

\* ------------------------------------------------------- /chat endpoint
\* HTTPException(status_code, detail), and any other exception
HTTPException(status_code, detail) ==
    [kind |-> "HTTPException", status_code |-> status_code, detail |-> detail]

OtherException(what) == [kind |-> "Exception", what |-> what]

\* a literal message, and str(e)
Text(t) == [text |-> t]

StrOf(e) == [str_of |-> e]

\* the two modules that define chat_endpoint
ChatVariants == {"api.chat", "src.api.routes.chat"}

\* what the search of the store does: it raises, or returns this many rows
SearchRaises == [raises |-> TRUE, rows |-> 0]

SearchOutcomes == {SearchRaises} \cup {[raises |-> FALSE, rows |-> n] : n \in 0..3}

\* what the chat completion does: it raises, or returns this content
CompletionOutcomes == {"raises", "none", "empty", "text"}

Returned(v) == [raised |-> FALSE, value |-> v]
Thrown(e) == [raised |-> TRUE, exc |-> e]

\* retrieve_relevant_chunks: core.chat_logic prints the error and returns
\* [], ChatService logs it and raises
retrieve_relevant_chunks(variant, search) ==
    IF search.raises
    THEN IF variant = "api.chat" THEN Returned(0) ELSE Thrown(OtherException("search"))
    ELSE Returned(search.rows)

\* generate_response(..., stream=False): core.chat_logic prints the error
\* and returns None, ChatService logs it and raises
generate_response(variant, completion) ==
    IF completion = "raises"
    THEN IF variant = "api.chat" THEN Returned("none")
         ELSE Thrown(OtherException("completion"))
    ELSE Returned(completion)

\* the try block of chat_endpoint
ChatBody(variant, search, completion) ==
    LET chunks == retrieve_relevant_chunks(variant, search)
        response == generate_response(variant, completion)
    IN  IF chunks.raised THEN chunks
        ELSE IF chunks.value = 0
        THEN Thrown(HTTPException(404, Text("No relevant documentation found")))
        ELSE IF response.raised THEN response
        ELSE IF response.value \in {"none", "empty"}
        THEN Thrown(HTTPException(500, Text("Failed to generate response")))
        ELSE Returned([answer |-> response.value, sources |-> chunks.value])

\* except Exception as e: raise HTTPException(status_code=500, detail=str(e))
\* HTTPException is an Exception, so the handler catches those raised in
\* the try block as well
ChatHandler(e) == HTTPException(500, StrOf(e))

\* the answer of POST /chat: the status and the detail of the exception
\* that leaves chat_endpoint, or 200 and the ChatResponse
chat_endpoint(variant, search, completion) ==
    LET body == ChatBody(variant, search, completion)
    IN  IF body.raised
        THEN [status |-> ChatHandler(body.exc).status_code,
              detail |-> ChatHandler(body.exc).detail]
        ELSE [status |-> 200, body |-> body.value]

ChatCalls ==
    { [fn |-> "chat_endpoint", variant |-> v, version |-> VersionInt(vs),
       search |-> sr, completion |-> c] :
          v \in ChatVariants, vs \in Range(version_dirs),
          sr \in SearchOutcomes, c \in CompletionOutcomes }

InitChat ==
    /\ NoPipeline
    /\ call \in ChatCalls
    /\ ret = NoRet

\* POST /chat is answered
CallChatEndpoint ==
    /\ call.fn = "chat_endpoint" /\ ~ret.done
    /\ ret' = [done |-> TRUE,
               chunks |-> retrieve_relevant_chunks(call.variant, call.search),
               value |-> chat_endpoint(call.variant, call.search, call.completion)]
    /\ UNCHANGED << pipeVars, call >>

SpecChat == InitChat /\ [][CallChatEndpoint]_vars

\* ================================================================ claims

\* every passage of file f is in the table
AllStored(f) == \A i \in 0..(nchunks[f] - 1) : RowsOf(f, i) # {}

\* the passages of file f that were inserted since the current run started
FreshRows(f) ==
    {r \in store : r.id >= runFirstId /\
        \E i \in 0..MaxChunks : Triple(r) = Triple(Record(f, i, VersionInt(f.vstr)))}

\* C1: in process_directory a file is in the checkpoint, in memory or on
\* disk, only when every one of its passages has been inserted into the table
C1_CheckpointOnlyAfterAllStored ==
    \A f \in committed \cup FilesOf(progress) \cup DiskFiles : AllStored(f)

\* C1 witness: a file of two passages was committed by this run and is in
\* the progress file
C1_Witness ==
    \E f \in committed \cap DiskFiles : nchunks[f] >= 2

\* C2: a file on which process_file raised is not added to the checkpoint,
\* the progress file written at exit (by the finally block) does not name
\* it, and the next run of process_directory does not skip it: it is the
\* first file that run calls process_file on
C2_FailedFileRetried ==
    /\ cut = "raised" => pending \notin (FilesOf(progress) \cup DiskFiles)
    /\ (pc = "idle" /\ result = "raised") =>
          /\ cut = "raised"
          /\ disk.exists /\ disk.valid
          /\ pending \notin DiskFiles
    /\ (mode = "insert" /\ owed.why = "raised") =>
          /\ owed.file \notin loaded
          /\ firstBegun \in {NoFile, owed.file}

\* C2 witness: the run after a run that raised on a file is processing that
\* file again and has inserted one of its passages
C2_Witness ==
    /\ InFile
    /\ owed.why = "raised"
    /\ CurFile = owed.file
    /\ ci >= 1

\* C3: when the process is killed while a file is being processed, the
\* progress file does not name that file, the progress the restarted run
\* loads does not contain it, and the restarted run calls process_file on it
\* before any other file and goes through its passages from index 0
C3_KilledFileRetried ==
    /\ cut = "killed" => pending \notin DiskFiles
    /\ (mode = "insert" /\ owed.why = "killed") =>
          /\ owed.file \notin loaded
          /\ firstBegun \in {NoFile, owed.file}
    /\ (InFile /\ owed.why = "killed" /\ CurFile = owed.file) =>
          doneChunks = 0..(ci - 1)

\* C3 witness: a file was killed after one of its passages was inserted and
\* the restarted run has inserted its first passage again
C3_Witness ==
    /\ InFile
    /\ owed.why = "killed"
    /\ CurFile = owed.file
    /\ partial[CurFile] >= 1
    /\ ci = 1

RowsOfFile(f) ==
    {r \in store : r.url.base = f.vstr /\ r.url.content_path = << f.dir, f.name >>}

\* C5: when process_file_with_update has returned for a file of N passages,
\* the table holds exactly N rows made from that file, one for each of the
\* indices 0..N-1: none of the passages this call inserted was deleted by it
C5_UpdateKeepsAllFresh ==
    (mode = "update" /\ pc = "ufiledone") =>
        /\ Cardinality(RowsOfFile(UpdFile)) = nchunks[UpdFile]
        /\ \A i \in 0..(nchunks[UpdFile] - 1) :
              Cardinality(RowsOf(UpdFile, i)) = 1

\* C6: when a complete run of update mode follows a complete run of update
\* mode, the table holds at its end the same passages as at the end of the
\* first: the same (url, chunk_number, version) with the same number of rows
C6_UpdateTwiceSameStore ==
    (mode = "update" /\ pc = "ufiles" /\ fi > Len(Worklist) /\ ~exc /\ snap.valid) =>
        Sig(store) = snap.sig

\* C6 witness: a second complete run of update mode is at its end and the
\* table is not empty
C6_Witness ==
    /\ mode = "update" /\ pc = "ufiles" /\ fi > Len(Worklist) /\ ~exc
    /\ snap.valid
    /\ store # {}

\* C7: after a run that ended without an error no two rows of the table have
\* the same (url, chunk_number, version)
C7_UniqueTriples ==
    (pc = "idle" /\ result = "ok") =>
        \A r, q \in store : Triple(r) = Triple(q) => r.id = q.id

\* C8: when process_file is called again on a file whose earlier processing
\* was cut short after k >= 1 passages were inserted, every one of these k
\* passages it has gone past is in the table at least twice
C8_ReinsertDuplicates ==
    InFile =>
        \A j \in 0..(ci - 1) :
            j < partial[CurFile] => Cardinality(RowsOf(CurFile, j)) >= 2

\* C8 witness: the first passage of a file that was cut short is in the
\* table twice
C8_Witness ==
    /\ InFile
    /\ partial[CurFile] >= 1
    /\ ci >= 1
    /\ Cardinality(RowsOf(CurFile, 0)) = 2

\* C9: process_directory never calls process_file on a file of the progress
\* it loaded and inserts no passage of such a file; a run of update mode
\* calls process_file_with_update on every file of its worklist, in the
\* progress file or not
C9_SkipOnlyInInsertMode ==
    /\ mode = "insert" =>
          \A f \in loaded : f \notin touched /\ FreshRows(f) = {}
    /\ (mode = "update" /\ pc = "ufiles") =>
          touched = {Worklist[k] : k \in 1..(fi - 1)}

\* C9 witness: a run of update mode has processed every file of the worklist
\* although the progress file names them all
C9_Witness ==
    /\ mode = "update" /\ pc = "ufiles" /\ fi > Len(Worklist)
    /\ DiskFiles = AllFiles
    /\ touched = AllFiles
    /\ \A f \in AllFiles : nchunks[f] >= 1 => FreshRows(f) # {}

\* C9, the insert-only half: process_directory has gone past a file that is
\* in the progress it loaded
C9_SkipReached ==
    /\ mode = "insert" /\ pc = "files" /\ vi = 1 /\ fi = 2
    /\ F1 \in loaded
    /\ nchunks[F1] >= 1
    /\ F1 \notin touched

\* C10: in process_file the attempt index of a passage stays below 3, the
\* sleeps since the first attempt of the passage are 1, 2, .. times
\* retry_delay, one per failed attempt, and the passage being attempted has
\* not succeeded before in this call
C10_BoundedLinearRetry ==
    InFile =>
        /\ attempt \in 0..2
        /\ slept = [k \in 1..attempt |-> k * retry_delay]
        /\ (pc = "sleep") => attempt < 2
        /\ ci \notin doneChunks

\* C10 witness: the third attempt of a passage is due, after sleeps of one
\* and two base delays
C10_Witness ==
    /\ InFile /\ pc = "chunk"
    /\ attempt = 2
    /\ slept = << retry_delay, 2 * retry_delay >>

\* the files that come after file f in the walk
WalkAfter(f) ==
    {Walk[k] : k \in {k \in 1..Len(Walk) : \E j \in 1..(k - 1) : Walk[j] = f}}

\* a passage of process_directory has failed its last attempt
Exhausted == lastFail.stage # "none" /\ LastAttempt(lastFail.attempt)

\* C11: once a passage has failed its third attempt in process_directory,
\* the run only saves the checkpoint and ends with the error: no passage of
\* that file at or after the failed index is stored in the run, no file
\* that comes later in the walk (same version or a later version directory)
\* is begun, and the run ends raised.
C11_FailFast ==
    Exhausted =>
        /\ pc \in {"finally", "save_open", "save_dump", "idle"}
        /\ pc # "idle" => (exc /\ CurFile = lastFail.file)
        /\ pc = "idle" => result = "raised"
        /\ touched \cap WalkAfter(lastFail.file) = {}
        /\ \A r \in FreshRows(lastFail.file) : r.chunk_number < lastFail.index

\* the first passage of F1 was stored, the second failed three times, F2
\* and F3 have passages and the run ended
C11_Witness ==
    /\ Exhausted /\ pc = "idle" /\ result = "raised"
    /\ lastFail.file = F1 /\ lastFail.index = 1
    /\ Cardinality(FreshRows(F1)) = 1
    /\ nchunks[F2] >= 1 /\ nchunks[F3] >= 1
    /\ touched = {F1}

\* C13: in update mode, when the lookup of the existing passages or their
\* delete has failed for passage i of a file, the error has left
\* process_file_with_update: the run is at the next file or has ended, and
\* neither passage i nor any later passage of that file was inserted in the
\* run.
C13_DeleteFailureFatal ==
    lastFail.stage \in {"ulookup", "udelete"} =>
        /\ pc \in {"ufiles", "idle"}
        /\ \A r \in FreshRows(lastFail.file) : r.chunk_number < lastFail.index

\* the delete of the stale rows failed for the first of two passages
C13_Witness ==
    /\ lastFail.stage = "udelete" /\ lastFail.index = 0
    /\ nchunks[lastFail.file] = 2
    /\ pc = "ufiles"
    /\ RowsOfFile(lastFail.file) # {}
    /\ FreshRows(lastFail.file) = {}

\* C14: in update mode, while the lookup, the delete, the settle delay or
\* the insert of passage ci of a file is under way, the inserts of exactly
\* the passages 0..ci-1 of that file have completed, and the row of passage
\* ci-1 is in the table when the lookup of passage ci starts: the passages
\* are handled one at a time in index order.
C14_UpdateSequential ==
    (mode = "update" /\ pc \in {"ulookup", "udelete", "usettle", "uinsert"}) =>
        /\ doneChunks = 0..(ci - 1)
        /\ (pc = "ulookup" /\ ci > 0) =>
               \E r \in FreshRows(UpdFile) : r.chunk_number = ci - 1

\* the delete of the second passage is about to run after the first insert
C14_Witness ==
    /\ mode = "update" /\ pc = "udelete"
    /\ ci = 1 /\ doneChunks = {0}

\* control is inside process_file or process_chunk (a passage is being
\* attempted or a retry delay is being slept), or inside
\* process_file_with_update or process_chunk_with_update
InPassageCode ==
    \/ mode = "insert" /\ pc \in {"insert", "sleep"}
    \/ mode = "insert" /\ pc = "chunk" /\ ci < nchunks[CurFile]
    \/ mode = "update" /\ pc \in {"uchunk", "ulookup", "udelete", "usettle", "uinsert"}

\* C16: a step taken by process_chunk, process_file,
\* process_chunk_with_update or process_file_with_update (any step but the
\* death of the process) leaves the checkpoint unchanged, in memory and on
\* disk; only process_directory, between two files, modifies it.
C16_CheckpointFrame ==
    [][(InPassageCode /\ result' \notin {"killed", "killed_in_file"}) =>
            (progress' = progress /\ disk' = disk)]_vars

\* the last passage of a file is about to be inserted while the checkpoint
\* on disk already holds an earlier file of the run
C16_Witness ==
    /\ mode = "insert" /\ pc = "insert"
    /\ ci + 1 = nchunks[CurFile]
    /\ committed # {}
    /\ disk.exists /\ disk.valid

\* C17: the table is changed only by a step that follows the computation
\* of the passage's url, title and embedding (the insert of process_chunk,
\* the delete and the insert of process_chunk_with_update), and a step in
\* which an attempt fails at the url or at the embedding leaves the table
\* as it was.
C17_WriteAfterAssembly ==
    [][/\ store' # store => pc \in {"insert", "udelete", "uinsert"}
       /\ (lastFail' # lastFail /\ lastFail'.stage \in {"locator", "embedding"})
              => store' = store]_vars

\* the embedding of the second passage has failed after the first passage
\* of the file was stored
C17_Witness ==
    /\ lastFail.stage = "embedding" /\ lastFail.index = 1
    /\ pc = "sleep"
    /\ Cardinality(FreshRows(lastFail.file)) = 1

\* C18: a passage whose url cannot be resolved from the path is attempted
\* exactly once: the failure happens on the first attempt and no retry
\* delay is slept for it.
C18_LocatorNotRetried ==
    lastFail.stage = "locator" => (lastFail.attempt = 0 /\ pc # "sleep")

\* the files of the existing version directories
WalkFiles == {Walk[k] : k \in 1..Len(Walk)}

\* C12: in process_markdown_directory an error raised while a file is
\* processed (the file cannot be read, its path has no url) never ends the
\* run, and when the run returns every markdown file of every existing
\* version directory has been handed to process_markdown_file and was
\* either processed or reported as failed.
C12_LogAndContinue ==
    /\ lastFail.stage \in {"read", "locator", "summary"} => result \in {"running", "ok"}
    /\ (pc = "idle" /\ result = "ok") =>
          /\ touched = WalkFiles
          /\ legOk \cup legErrors = WalkFiles
          /\ legOk \cap legErrors = {}

\* F1 could not be read; F2 and F3 were processed and stored afterwards
C12_Witness ==
    /\ pc = "idle" /\ result = "ok"
    /\ legErrors = {F1} /\ legOk = {F2, F3}
    /\ nchunks[F1] >= 1
    /\ FreshRows(F2) # {} /\ FreshRows(F3) # {}

\* the chunk numbers of the rows of file f stored in the current run
FreshIndices(f) == {r.chunk_number : r \in FreshRows(f)}

\* C15: every row carries as chunk_number the position of its passage in
\* the chunker's output: the url of the row is the url of the passage at
\* that position, a row of the fan-out variant holds the content of that
\* position, and when all the passages of a file have been inserted (by
\* the sequential loop with its retries, or by the two gathers) the rows of
\* the run for that file have exactly the indices 0..N-1, once each.
C15_IndexIsPosition ==
    /\ \A r \in store :
          /\ "content" \in DOMAIN r => r.chunk_number = r.content.position
          /\ \E f \in AllFiles :
                /\ r.chunk_number \in 0..(nchunks[f] - 1)
                /\ r.url = ConvertPathToUrl(f, HeaderPath(f, r.chunk_number))
    /\ (mode = "insert" /\ pc = "chunk" /\ ci = nchunks[CurFile]) =>
          /\ FreshIndices(CurFile) = 0..(nchunks[CurFile] - 1)
          /\ Cardinality(FreshRows(CurFile)) = nchunks[CurFile]
    /\ (mode = "legacy" /\ pc = "linserts" /\ Len(legInserted) = nchunks[CurFile]
            /\ \A k \in 1..Len(legInserted) : legInserted[k]) =>
          /\ FreshIndices(CurFile) = 0..(nchunks[CurFile] - 1)
          /\ Cardinality(FreshRows(CurFile)) = nchunks[CurFile]

\* the two passages of a file went through the two gathers and both rows
\* are stored
C15_Witness ==
    /\ mode = "legacy" /\ pc = "linserts"
    /\ nchunks[CurFile] = 2 /\ legInserted = << TRUE, TRUE >>
    /\ FreshIndices(CurFile) = {0, 1}

\* C19: in process_markdown_directory a passage whose embedding request
\* failed is assembled with the zero vector of length 1536, the failure
\* fails neither the passage nor the file, and the row inserted for it
\* carries that vector; every row of this pipeline has a vector of length
\* 1536.
C19_DegradedEmbedding ==
    /\ \A r \in store : "embedding" \in DOMAIN r => r.embedding.len = 1536
    /\ (mode = "legacy" /\ pc \in {"ltasks", "linserts"}) =>
          \A i \in DOMAIN legTasks :
              ~legTasks[i].emb_ok =>
                  /\ legTasks[i].chunk.embedding = [kind |-> "zero", len |-> 1536]
                  /\ (i < Len(legInserted) /\ legInserted[i + 1]) =>
                        \E r \in FreshRows(CurFile) :
                            /\ r.chunk_number = i
                            /\ r.embedding = [kind |-> "zero", len |-> 1536]
    /\ lastFail.stage # "embedding"

\* the second passage of a file lost its embedding request and its row is
\* in the table with the zero vector
C19_Witness ==
    /\ mode = "legacy" /\ pc = "linserts"
    /\ 1 \in DOMAIN legTasks /\ ~legTasks[1].emb_ok /\ legTasks[0].emb_ok
    /\ legInserted = << TRUE, TRUE >>
    /\ \E r \in FreshRows(CurFile) : r.chunk_number = 1 /\ r.embedding.kind = "zero"

\* C20: whatever goes wrong with the summary request (the request raises,
\* the answer has no content, is not JSON, is JSON but no object, or is an
\* object without 'summary'), get_title_and_summary returns the extracted
\* title with the summary 'Error generating summary' and does not raise: no
\* task and no file ever fails because of the summary.
C20_SummaryNeverRaises ==
    /\ lastFail.stage # "summary"
    /\ (mode = "legacy" /\ pc \in {"ltasks", "linserts"}) =>
          \A i \in DOMAIN legTasks :
              /\ legTasks[i].chunk.title = ExtractTitle(CurFile, i)
              /\ ~legTasks[i].summary_ok =>
                    legTasks[i].chunk.summary = "Error generating summary"
              /\ legTasks[i].summary_ok =>
                    legTasks[i].chunk.summary # "Error generating summary"

\* both summary requests of a file failed and the file is being inserted
C20_Witness ==
    /\ mode = "legacy" /\ pc = "linserts"
    /\ DOMAIN legTasks = {0, 1}
    /\ ~legTasks[0].summary_ok /\ ~legTasks[1].summary_ok
    /\ Len(legInserted) = 1 /\ legInserted[1]

\* the number and the page the claim gives for a version directory and a
\* remainder of a path
Text17_0 == << "1", "7", ".", "0" >>

ExpectedVersion(dir) ==
    CASE dir = VersionDir(<< "1", "7" >>, << "0" >>).text -> [str |-> Text17_0, n |-> 170]
      [] dir = VersionDir(<< "1", "7" >>, << "5" >>).text ->
             [str |-> << "1", "7", ".", "5" >>, n |-> 175]
      [] dir = VersionDir(<< "1", "6" >>, << "0" >>).text ->
             [str |-> << "1", "6", ".", "0" >>, n |-> 160]
      [] dir = VersionDir(<< "1", "8" >>, << "5" >>).text ->
             [str |-> << "1", "8", ".", "5" >>, n |-> 185]
      [] dir = VersionDir(<< "8" >>, << "0" >>).text -> [str |-> << "8", ".", "0" >>, n |-> 80]

ExpectedPage(rest) ==
    CASE rest = << "content", "/", "a", "/", "b", ".", "md" >> -> << "a", "/", "b" >>
      [] rest = << "a", "/", "b", ".", "md" >> -> << "a", "/", "b" >>
      [] rest = << "a", "/", "content", "/", "b", ".", "md" >> ->
             << "a", "/", "content", "/", "b" >>
      [] rest = << "content", "/", ".", "md" >> -> << >>
      [] rest = << "a", ".", "md", ".", "md" >> -> << "a", ".", "md" >>

\* the remainders that name a markdown file
MdRemainders ==
    { << "content", "/", "a", "/", "b", ".", "md" >>, << "a", "/", "b", ".", "md" >>,
      << "a", "/", "content", "/", "b", ".", "md" >>, << "content", "/", ".", "md" >>,
      << "a", ".", "md", ".", "md" >> }

\* C21: for a path made of any prefix, a directory /versions/<major>.<minor>/
\* with a one-digit minor and a remainder that names a markdown file,
\* convert_path_to_url returns the version major*10 + minor and a URL that
\* starts with https://www.odoo.com/documentation/<major>.<minor>/, goes on
\* with the remainder without a leading content/ and without .md, and then
\* .html; for /x/versions/17.0/content/a/b.md and '[##] Install' it returns
\* 170 and .../17.0/a/b.html#install.
C21_LocatorValue ==
    (ret.done /\ call.fn = "convert_path_to_url"
        /\ call.dir \in {v.text : v \in VersionDirs} /\ call.rest \in MdRemainders) =>
      /\ ~ret.value.raised
      /\ ret.value.version = ExpectedVersion(call.dir).n
      /\ StartsWith(ret.value.url,
                    BaseUrl \o ExpectedVersion(call.dir).str \o << "/" >>
                        \o ExpectedPage(call.rest) \o << ".html" >>)
      /\ (call.file_path = << "/", "x", "/", "versions", "/", "1", "7", ".", "0", "/",
                              "content", "/", "a", "/", "b", ".", "md" >>
            /\ call.header_path = << "[", "#", "#", "]", " ", "Install" >>) =>
              ret.value.url = BaseUrl \o Text17_0
                                \o << "/", "a", "/", "b", ".html", "#", "install" >>

\* the call of the example has returned
C21_Witness ==
    /\ ret.done /\ call.fn = "convert_path_to_url"
    /\ call.file_path = << "/", "x", "/", "versions", "/", "1", "7", ".", "0", "/",
                           "content", "/", "a", "/", "b", ".", "md" >>
    /\ call.header_path = << "[", "#", "#", "]", " ", "Install" >>
    /\ ret.value.version = 170

\* the path has a directory /versions/<digits>.<digits>/ whose closing
\* slash is at position e
VersionDirEndsAt(p, e) ==
    \E k, d \in 1..Len(p) :
        /\ k + 3 < d /\ d + 1 < e /\ e <= Len(p)
        /\ p[k] = "/" /\ p[k + 1] = "versions" /\ p[k + 2] = "/"
        /\ \A i \in (k + 3)..(d - 1) : IsDigit(p[i])
        /\ p[d] = "."
        /\ \A i \in (d + 1)..(e - 1) : IsDigit(p[i])
        /\ p[e] = "/"

IsAnchorSymbol(c) == c \in LowerWords \/ IsDigit(c) \/ c = "-"

\* C23: a URL returned by convert_path_to_url does not end in '#'; it has a
\* fragment only when the anchor cleaned from the last heading-path segment
\* is not empty, and every symbol after the '#' is then a lowercase letter,
\* a digit or a hyphen.
C23_NoEmptyFragment ==
    (ret.done /\ call.fn = "convert_path_to_url" /\ ~ret.value.raised) =>
      LET u == ret.value.url
          marks == {k \in 1..Len(u) : u[k] = "#"}
      IN  /\ u[Len(u)] # "#"
          /\ \A k \in marks :
                /\ k < Len(u) /\ u[k - 1] = ".html"
                /\ \A i \in (k + 1)..Len(u) : IsAnchorSymbol(u[i])
          /\ marks = {} <=> extract_section_anchor(call.header_path) = << >>
          /\ marks = {} => u[Len(u)] = ".html"

\* the heading '[#] &' cleans to nothing and the URL came back without a
\* fragment
C23_Witness ==
    /\ ret.done /\ call.fn = "convert_path_to_url" /\ ~ret.value.raised
    /\ call.header_path = << "[", "#", "]", " ", "&" >>
    /\ ret.value.url[Len(ret.value.url)] = ".html"

\* the line of a text that starts at position k
LineAt(s, k) == SubSeq(s, k, LineEnd(s, k) - 1)

\* what a line says after its marker, for a Markdown heading line (one or
\* more '#', one or more blanks, a text); << >> for any other line
HeadingText(line) ==
    LET marks == {h \in 1..Len(line) : \A i \in 1..h : line[i] = "#"}
        h == IF marks = {} THEN 0 ELSE Max(marks)
        blanks == {w \in 1..(Len(line) - h) : \A i \in (h + 1)..(h + w) : line[i] = " "}
        w == IF blanks = {} THEN 0 ELSE Max(blanks)
    IN  IF h = 0 \/ w = 0 THEN << >> ELSE From(line, h + w + 1)

\* the title the claim gives a passage
ExpectedTitle(chunk) ==
    LET md == chunk.metadata
        levels == {l \in 1..4 : md.Header[l].in /\ md.Header[l].v # << >>}
        first == FirstLine(chunk.content)
        body == IF Contains(first, << "[", "#" >>) /\ Contains(first, << " ", ">", " " >>)
                THEN AfterFirstLine(chunk.content) ELSE chunk.content
        headings == {k \in LineStarts(body) : HeadingText(LineAt(body, k)) # << >>}
        line == Strip(FirstLine(body))
    IN  IF md.header_path.in /\ md.header_path.v # << >> THEN md.header_path.v
        ELSE IF levels # {} THEN md.Header[Min(levels)].v
        ELSE IF headings # {} THEN HeadingText(LineAt(body, Min(headings)))
        ELSE IF CharLen(line) > 100 THEN Take(line, 97) \o << ".", ".", "." >>
        ELSE line

\* C24: extract_title_from_chunk returns the first non-empty of the
\* header_path metadata, the lowest-numbered non-empty 'Header 1'..'Header 4'
\* value, the text of the first Markdown heading line of the content (a
\* first line that is a heading path left out), and the stripped first
\* line of the content, cut to 97 characters and '...' when it is longer
\* than 100; 'Just some text' and a second line, without heading metadata,
\* get the title 'Just some text'.
C24_TitleOrder ==
    (ret.done /\ call.fn = "extract_title_from_chunk") =>
        ret.value = ExpectedTitle(call.chunk)

\* C27: process_directory starting without a progress file starts from the
\* empty map, and starting with one it starts from the map that was saved;
\* a step that changes the progress file either truncates it or leaves a
\* file whose load is the whole map in memory, every version with all its
\* file paths.
C27_CheckpointRoundTrip ==
    [][/\ (pc = "idle" /\ mode' = "insert") =>
              /\ ~disk.exists => progress' = EmptyMap
              /\ progress' = LoadProgress(disk)
       /\ disk' # disk =>
              \/ disk' = TruncatedFile
              \/ /\ disk'.exists /\ disk'.valid
                 /\ LoadProgress(disk') = progress
                 /\ DOMAIN disk'.data = DOMAIN progress]_vars

\* a later run has loaded a saved map that holds files of two versions
C27_Witness ==
    /\ mode = "insert" /\ pc = "version" /\ runs = 2
    /\ disk.exists /\ disk.valid
    /\ progress = LoadProgress(disk)
    /\ Cardinality(DOMAIN progress) = 2
    /\ \A k \in DOMAIN progress : progress[k] # {}

\* the rows the lookup of the current passage step matches
UpdMatches == MetadataMatch(store, FileName(UpdFile), FormatVersion(UpdVersion))

\* C28: in update mode a passage step goes from the computation of the
\* embedding to the lookup, from the lookup to the delete when rows match
\* and straight to the insert when none does, from the delete to the
\* settle delay and from the delay to the insert. The delete removes all
\* matching rows in one step; when the insert is due, either nothing
\* matched and nothing was deleted or waited for, or every matching row
\* is gone and the settle delay was waited once.
C28_UpdateStepOrder ==
    [][mode = "update" =>
        /\ pc' = "ulookup" /\ pc # "ulookup" => pc = "uchunk" /\ store' = store
        /\ pc' = "udelete" /\ pc # "udelete" =>
               pc = "ulookup" /\ UpdMatches # {} /\ store' = store /\ slept' = << >>
        /\ pc' = "usettle" /\ pc # "usettle" =>
               /\ pc = "udelete"
               /\ store' = store \ UpdMatches
               /\ slept' = << >>
        /\ pc' = "uinsert" /\ pc # "uinsert" =>
               \/ pc = "ulookup" /\ UpdMatches = {} /\ store' = store /\ slept' = << >>
               \/ pc = "usettle" /\ store' = store /\ slept' = << settle_delay >>
        /\ (pc = "uinsert" /\ store' # store) =>
               /\ UpdMatches = {}
               /\ store \subseteq store' /\ Cardinality(store' \ store) = 1
               /\ slept = IF records_to_delete = {} THEN << >> ELSE << settle_delay >>]_vars

\* the rows of the file were deleted, the delay is over and the insert of
\* the fresh passage is due
C28_Witness ==
    /\ mode = "update" /\ pc = "uinsert"
    /\ records_to_delete # {}
    /\ slept = << settle_delay >>
    /\ UpdMatches = {}

\* C29: a step of update mode removes from the table only rows that were
\* made from the file being updated; the rows of every other file, one of
\* the same version and the same base filename in another directory
\* included, stay.
C29_DeleteOwnRowsOnly ==
    [][mode = "update" => (store \ store') \subseteq RowsOfFile(UpdFile)]_vars

\* the store is between the delete and the insert of a passage step
InUpdateWindow ==
    mode = "update" /\ pc \in {"usettle", "uinsert"} /\ records_to_delete # {}

\* C30: in update mode the delete and the insert of a passage step are two
\* steps, no step both removes rows and adds one; in every state between
\* the two, which a reader of the table can see, the table holds no
\* passage of the file being updated.
C30_UpdateWindow ==
    [][/\ ~(store \ store' # {} /\ store' \ store # {})
       /\ InUpdateWindow' => RowsOfFile(UpdFile)' = {}
       /\ (mode = "update" /\ pc = "udelete" /\ store' # store) =>
              InUpdateWindow' /\ pc' = "usettle"]_vars

\* a passage of the file was inserted by this run and deleted again by the
\* next passage step: the table holds nothing of the file while the delay
\* lasts
C30_Witness ==
    /\ InUpdateWindow /\ pc = "usettle"
    /\ doneChunks # {}
    /\ RowsOfFile(UpdFile) = {}
    /\ ci < nchunks[UpdFile]

\* C31: after the process was killed, at whatever instant, the progress
\* file is absent or can be loaded, and every file it lists has all its
\* passages in the table.
C31_CrashSafeCheckpoint ==
    result \in {"killed", "killed_in_file"} =>
        /\ disk.exists => disk.valid
        /\ \A f \in DiskFiles : AllStored(f)

\* the rows of passage j of file f that were inserted since the current
\* run started
FreshRowsOf(f, j) == {r \in FreshRows(f) : r.chunk_number = j}

\* C32: in insert-only mode an attempt that fails leaves the table as it
\* was; while process_file is at passage ci of a file, the call has
\* inserted one row for every earlier passage and none for ci or a later
\* one, and a file whose call has returned has exactly one row of this
\* run for each of its passages, however many attempts were made.
C32_InsertedExactlyOnce ==
    [][/\ (lastFail' # lastFail /\ lastFail'.stage # "none") => store' = store
       /\ InFile' =>
              \A j \in 0..(nchunks[CurFile]' - 1) :
                  Cardinality(FreshRowsOf(CurFile, j))' = IF j < ci' THEN 1 ELSE 0
       /\ \A f \in committed' :
              /\ Cardinality(FreshRows(f))' = nchunks[f]'
              /\ \A j \in 0..(nchunks[f]' - 1) : Cardinality(FreshRowsOf(f, j))' = 1]_vars

\* the second passage of a file is at its third attempt, the insert having
\* failed, and the first passage is in the table once
C32_Witness ==
    /\ InFile /\ pc = "insert"
    /\ attempt = 2 /\ lastFail.stage = "insert"
    /\ ci = 1
    /\ Cardinality(FreshRows(CurFile)) = 1

\* C33: while process_directory runs, every step keeps every version of
\* the checkpoint with all the file paths it held, and adds at most one
\* file path, that of the file process_file has just returned for; the
\* files loaded at the start of the run stay in the map and in every
\* progress file the run writes.
C33_CheckpointGrows ==
    [][(mode = "insert" /\ mode' = "insert") =>
          /\ \A k \in DOMAIN progress :
                k \in DOMAIN progress' /\ progress[k] \subseteq progress'[k]
          /\ Cardinality(FilesOf(progress') \ FilesOf(progress)) <= 1
          /\ FilesOf(progress') # FilesOf(progress) =>
                /\ pc = "chunk" /\ ci = nchunks[CurFile]
                /\ FilesOf(progress') = FilesOf(progress) \cup {CurFile}
          /\ loaded \subseteq FilesOf(progress')
          /\ (disk'.exists /\ disk'.valid) => loaded \subseteq FilesOf(LoadProgress(disk'))]_vars

\* a run that loaded a committed file has added a second file of the same
\* version to the checkpoint
C33_Witness ==
    /\ mode = "insert"
    /\ loaded # {}
    /\ \E k \in DOMAIN progress :
          /\ progress[k] \cap loaded # {}
          /\ progress[k] \cap committed # {}

\* C34: in process_markdown_directory a file for which 'Successfully
\* processed' was printed has every one of its passages in the table, as
\* rows inserted by this run.
C34_ReportedOnlyIfStored ==
    mode = "legacy" =>
        \A f \in legOk :
            Cardinality({r \in RowsOfFile(f) : r.id >= runFirstId}) >= nchunks[f]

\* C35: a call of process_directory that has ended (not a killed process)
\* has either gone through the three version directories, skipping the
\* one that does not exist and processing the one after it, or stopped at
\* a passage that failed three attempts.
C35_EndsScannedOrExhausted ==
    (pc = "idle" /\ result \notin {"none", "killed", "killed_in_file"}) =>
        \/ /\ result = "ok"
           /\ vi > Len(version_dirs)
           /\ \A f \in AllFiles : f \in touched \cup loaded
        \/ /\ result = "raised"
           /\ Exhausted

\* every request the pipeline awaits returns or raises, and the event loop
\* goes on with the coroutine
FairInsert == SpecInsert /\ WF_vars(NextInsert)

\* a run of process_directory that got past the load of the checkpoint
\* ends (holds under FairInsert)
RunTerminates == (mode = "insert") ~> (mode = "none")

C37_OneEmbeddingLength ==
    (ret.done /\ call.fn = "get_embedding") =>
        ret.value.vector.len = ModelDimension(call.variant.model)

\* the heading path of a set of levels: the lowest level first
RECURSIVE PathOfLevels(_, _)
PathOfLevels(md, levels) ==
    IF levels = {} THEN << >>
    ELSE LET l == Min(levels)
             marker == << "[" >> \o [k \in 1..l |-> "#"] \o << "]", " " >>
         IN  marker \o md.Header[l].v
               \o (IF levels = {l} THEN << >>
                   ELSE << " ", ">", " " >> \o PathOfLevels(md, levels \ {l}))

\* C38: create_header_path lists the headings of the levels 1 to 4 whose
\* text is in the metadata and not empty, lowest level first, each as
\* '[' + level hashes + '] ' + text, joined by ' > '; it returns the empty
\* string exactly when there is no such level; chunk_markdown puts that
\* line and a newline in front of the content of a passage when the line
\* is not empty and leaves the content as it is when it is empty.
C38_HeaderPath ==
    (ret.done /\ call.fn = "chunk_markdown") =>
      LET md == call.split.metadata
          levels == {l \in 1..4 : call.kinds[l] = "text"}
      IN  /\ ret.header_path = PathOfLevels(md, levels)
          /\ ret.header_path = << >> <=> levels = {}
          /\ ret.value.metadata.header_path = Entry(ret.header_path)
          /\ ret.value.content =
                IF levels = {} THEN call.split.page_content
                ELSE ret.header_path \o << "\n" >> \o call.split.page_content

\* level 1 has an empty heading, level 3 none: the path is
\* '[##] Install > [####] x' and it is the first line of the content
C38_Witness ==
    /\ ret.done /\ call.fn = "chunk_markdown"
    /\ call.kinds = << "empty", "text", "none", "text" >>
    /\ ret.header_path = << "[", "#", "#", "]", " ", "Install", " ", ">", " ",
                            "[", "#", "#", "#", "#", "]", " ", "x" >>
    /\ FirstLine(ret.value.content) = ret.header_path

\* C39: the list get_embeddings_concurrently returns has one embedding
\* for every input text, the i-th being the embedding of the i-th text.
C39_ResultsAligned ==
    (ret.done /\ call.fn = "get_embeddings_concurrently") =>
        /\ Len(ret.embeddings) = Len(call.texts)
        /\ \A i \in 1..Len(call.texts) :
              i <= Len(ret.embeddings) => ret.embeddings[i] = EmbeddingOf(call.texts[i])

\* C40: when retrieve_relevant_chunks returns no passage, POST /chat is
\* answered with status 404 and the detail 'No relevant documentation
\* found'; an answer with status 500 is given only when the search or the
\* chat completion failed or gave no answer.
C40_NotFoundIs404 ==
    (ret.done /\ call.fn = "chat_endpoint") =>
        /\ (~ret.chunks.raised /\ ret.chunks.value = 0) =>
              /\ ret.value.status = 404
              /\ ret.value.detail = Text("No relevant documentation found")
        /\ ret.value.status = 500 =>
              call.search.raises \/ call.completion \in {"raises", "none", "empty"}

====
